---- MODULE Spec2Model ----
(***************************************************************************)
(* chaosprobe: the placement planner (chaosprobe/placement/strategy.py).   *)
(*                                                                         *)
(* compute_assignments is a pure function of (strategy, deployments,       *)
(* nodes, target_node, seed).  The state is one planning session: the      *)
(* deployment list and node list read from the cluster, and the outcome of *)
(* the most recent compute_assignments call on them.                       *)
(*                                                                         *)
(* Python values are represented as follows.                               *)
(*   str (node names)   a tuple of one-character strings, so that          *)
(*                      str.lower() and the `in` substring test of         *)
(*                      NodeInfo.is_control_plane are computed             *)
(*   Optional[x]        None is <<>>, a value v is <<v>>                    *)
(*   dict               a function; assigning an existing key overwrites   *)
(*   list               a sequence (Python index i is TLA+ index i + 1)    *)
(*   raise ValueError   an outcome record with kind = "raise"              *)
(* The `description` strings of the metadata are not modelled.             *)
(*                                                                         *)
(* The planner computes on its arguments only: while it runs, the cluster  *)
(* and the placement mutator (chaosprobe/placement/mutator.py) are absent  *)
(* (None).  The mutator has a specification of its own, MutatorSpec, and   *)
(* so has the recovery watcher (chaosprobe/metrics/recovery.py),           *)
(* WatcherSpec; its summary statistics, a pure function of a cycle list,   *)
(* are applied to lists of cycles in SummarySpec.  SerializeSpec takes the  *)
(* result of one planner call through NodeAssignment.to_dict and           *)
(* NodeAssignment.from_dict.  RolloutSpec applies one pass of the          *)
(* convergence wait of the mutator to deployments of every status.         *)
(***************************************************************************)
EXTENDS Integers, Sequences, FiniteSets, TLC

VARIABLES deployments, nodes, last, repeated, cluster, mutator,
          clock, watcher, workers, caller, stream, delivered, summarized,
          serialized, polled

vars == <<deployments, nodes, last, repeated, cluster, mutator,
          clock, watcher, workers, caller, stream, delivered, summarized,
          serialized, polled>>

\* The variables of the planner, of the placement mutator and of the
\* recovery watcher.
planner_vars == <<deployments, nodes, last, repeated>>

mutator_vars == <<cluster, mutator>>

watcher_vars == <<clock, watcher, workers, caller, stream, delivered>>

\* The arguments and results of the pure functions applied on their own.
pure_vars == <<summarized, serialized, polled>>

\* ------------------------------------------------------------- bounds

\* Longest node list handed to the planner.
MaxNodes == 3

\* Longest deployment list handed to the planner.
MaxDeployments == 4

\* ------------------------------------------------------ Python values

None == <<>>

Some(v) == <<v>>

\* Python truthiness of an Optional[str]: None and "" are falsy.
Truthy(opt) == opt # None /\ opt[1] # <<>>

\* str.lower() on the characters node names are made of.
LowerChar(c) ==
    CASE c = "C" -> "c"
      [] c = "P" -> "p"
      [] c = "M" -> "m"
      [] OTHER -> c

Lower(s) == [i \in 1..Len(s) |-> LowerChar(s[i])]

\* Python `p in s` for strings: p occurs in s as a contiguous substring.
Contains(s, p) ==
    \E i \in 0..(Len(s) - Len(p)) : SubSeq(s, i + 1, i + Len(p)) = p

\* dict[key] = value
Put(d, k, v) == [x \in (DOMAIN d) \cup {k} |-> IF x = k THEN v ELSE d[x]]

EmptyDict == [x \in {} |-> None]

\* dict.values() as a bag of values: the number of keys mapped to v.
CountValue(d, v) == Cardinality({k \in DOMAIN d : d[k] = v})

Max(a, b) == IF a >= b THEN a ELSE b

Min(a, b) == IF a <= b THEN a ELSE b

\* ---------------------------------------------------------- data model

\* PlacementStrategy: the four members of the enum, by value.
PlacementStrategy == {"colocate", "spread", "random", "antagonistic"}

\* NodeInfo.CONTROL_PLANE_LABEL_KEYS
CONTROL_PLANE_LABEL_KEYS ==
    {"node-role.kubernetes.io/master", "node-role.kubernetes.io/control-plane"}

\* The substrings of a lower-cased node name that mark a control-plane node.
ControlPlaneNamePatterns ==
    { <<"c", "p">>,
      <<"m", "a", "s", "t", "e", "r">>,
      <<"c", "o", "n", "t", "r", "o", "l">> }

\* NodeInfo.is_schedulable ending in `return True` instead of the ready flag.
is_schedulable_TaintOnly(n) ==
    ~\E i \in DOMAIN n.taints :
          /\ n.taints[i].key \in CONTROL_PLANE_LABEL_KEYS
          /\ n.taints[i].effect = "NoSchedule"

\* NodeInfo.is_schedulable: no control-plane NoSchedule taint, and ready.
is_schedulable(n) ==
    IF \E i \in DOMAIN n.taints :
          /\ n.taints[i].key \in CONTROL_PLANE_LABEL_KEYS
          /\ n.taints[i].effect = "NoSchedule"
    THEN FALSE
    ELSE n.conditions_ready

\* NodeInfo.is_control_plane: a control-plane label, or the name heuristic.
is_control_plane(n) ==
    \/ \E key \in CONTROL_PLANE_LABEL_KEYS : key \in DOMAIN n.labels
    \/ \E p \in ControlPlaneNamePatterns : Contains(Lower(n.name), p)

\* NodeInfo(name, labels, allocatable_cpu_millicores, conditions_ready, taints).
\* allocatable_memory_bytes is read by no planner code and is left out.
NodeInfo(name, labels, cpu, ready, taints) ==
    [ name |-> name,
      labels |-> labels,
      allocatable_cpu_millicores |-> cpu,
      conditions_ready |-> ready,
      taints |-> taints ]

\* DeploymentInfo(name, cpu_request_millicores, memory_request_bytes).
\* replicas and current_node are read by no planner code and are left out.
DeploymentInfo(name, cpu, mem) ==
    [ name |-> name,
      cpu_request_millicores |-> cpu,
      memory_request_bytes |-> mem ]

\* ------------------------------------------------------------- inputs

MiB == 1024 * 1024

Label(key) == [k \in {key} |-> ""]

Taint(key, effect) == [key |-> key, effect |-> effect]

\* The nodes a cluster listing is drawn from: worker w1; worker w2 with
\* less CPU, either ready or not ready; CP1, a control plane that is
\* schedulable (its taint is not NoSchedule), is recognised by its name and
\* has the CPU of the larger worker; and m4, a control plane recognised by
\* its label that carries the NoSchedule taint and has the most CPU.
NodeCatalog ==
    { NodeInfo(<<"w", "1">>, EmptyDict, 4000, TRUE, <<>>),
      NodeInfo(<<"w", "2">>, EmptyDict, 2000, TRUE, <<>>),
      NodeInfo(<<"w", "2">>, EmptyDict, 2000, FALSE, <<Taint("dedicated", "NoSchedule")>>),
      NodeInfo(<<"C", "P", "1">>, EmptyDict, 4000, TRUE,
               <<Taint("node-role.kubernetes.io/control-plane", "PreferNoSchedule")>>),
      NodeInfo(<<"m", "4">>, Label("node-role.kubernetes.io/master"), 8000, TRUE,
               <<Taint("dedicated", "NoExecute"),
                 Taint("node-role.kubernetes.io/master", "NoSchedule")>>) }

\* Node names are unique in a cluster: a listing never repeats a node.
NodeLists ==
    UNION { { s \in [1..n -> NodeCatalog] :
                \A i, j \in 1..n : s[i].name = s[j].name => i = j }
            : n \in 0..MaxNodes }

\* The resource requests a deployment may carry, as (millicores, bytes):
\* 100m with 256 MiB scores 356, 300m with 32.5 MiB scores 332.5, so the
\* order by score is the reverse of the order by CPU request.
RequestProfiles ==
    { <<100, 256 * MiB>>, <<300, 32 * MiB + 512 * 1024>> }

\* Deployment names are unique in a namespace; the i-th listed deployment
\* is named d<i> (the planner only compares names for equality).
DeploymentLists ==
    UNION { { [i \in 1..n |-> DeploymentInfo("d" \o ToString(i), p[i][1], p[i][2])]
              : p \in [1..n -> RequestProfiles] }
            : n \in 0..MaxDeployments }

\* The target_node arguments: absent, the empty string, a name no node
\* has, the name of a worker and the name of the tainted control plane.
TargetNodes ==
    { None, Some(<<>>), Some(<<"g", "h", "o", "s", "t">>),
      Some(<<"w", "2">>), Some(<<"m", "4">>) }

\* The seed arguments: absent, or an integer.
Seeds == {None, Some(1), Some(2)}

\* What random.Random(None) seeds itself from (OS entropy or the clock).
Entropy == {0, 5}

\* ------------------------------------------------------------ planner

\* What a call does: it returns a NodeAssignment or raises ValueError.
Return(assignment) == [kind |-> "return", value |-> assignment]

\* `match` is the fragment of the message the tests match on.
Raise(match) == [kind |-> "raise", error |-> "ValueError", match |-> match]

\* The per-node counts computed from assignments.values().
Distribution(assignments) ==
    LET used == {assignments[k] : k \in DOMAIN assignments}
    IN  [node \in used |-> CountValue(assignments, node)]

\* The sort key of _pick_best_worker: (not is_control_plane, allocatable CPU),
\* with False < True.
WorkerKey(n) ==
    <<IF is_control_plane(n) THEN 0 ELSE 1, n.allocatable_cpu_millicores>>

\* Python tuple comparison a < b on pairs.
PairLess(a, b) == a[1] < b[1] \/ (a[1] = b[1] /\ a[2] < b[2])

\* _pick_best_worker without the worker preference: the most CPU wins.
pick_best_worker_ByCpuOnly(ns) ==
    LET i == CHOOSE i \in DOMAIN ns :
                 /\ \A j \in DOMAIN ns :
                        ns[j].allocatable_cpu_millicores <= ns[i].allocatable_cpu_millicores
                 /\ \A j \in 1..(i - 1) :
                        ns[j].allocatable_cpu_millicores < ns[i].allocatable_cpu_millicores
    IN  ns[i].name

\* _pick_best_worker: max() returns the first node whose key is maximal.
pick_best_worker(ns) ==
    LET i == CHOOSE i \in DOMAIN ns :
                 /\ \A j \in DOMAIN ns : ~PairLess(WorkerKey(ns[i]), WorkerKey(ns[j]))
                 /\ \A j \in 1..(i - 1) : PairLess(WorkerKey(ns[j]), WorkerKey(ns[i]))
    IN  ns[i].name

\* {d.name: chosen for d in deployments}
AllTo(deps, chosen) ==
    LET RECURSIVE Build(_)
        Build(k) == IF k = 0 THEN EmptyDict
                    ELSE Put(Build(k - 1), deps[k].name, chosen)
    IN  Build(Len(deps))

\* _compute_colocate whose membership test accepts every target.
compute_colocate_NoTargetCheck(deps, ns, node_names, target_node) ==
    LET chosen == IF Truthy(target_node) THEN target_node[1] ELSE pick_best_worker(ns)
    IN  Return([ strategy |-> "colocate",
                 assignments |-> AllTo(deps, chosen),
                 seed |-> None,
                 metadata |-> [target_node |-> chosen] ])

\* _compute_colocate
compute_colocate(deps, ns, node_names, target_node) ==
    IF Truthy(target_node) /\ ~(\E i \in DOMAIN node_names : node_names[i] = target_node[1])
    THEN Raise("not found")
    ELSE LET chosen == IF Truthy(target_node) THEN target_node[1]
                       ELSE pick_best_worker(ns)
         IN  Return([ strategy |-> "colocate",
                      assignments |-> AllTo(deps, chosen),
                      seed |-> None,
                      metadata |-> [target_node |-> chosen] ])

\* The round-robin loop of _compute_spread, always taking the first node.
SpreadLoop_FirstNode(deps, node_names) ==
    AllTo(deps, node_names[1])

\* for idx, dep in enumerate(deployments):
\*     assignments[dep.name] = node_names[idx % len(node_names)]
SpreadLoop(deps, node_names) ==
    LET RECURSIVE Build(_)
        Build(k) == IF k = 0 THEN EmptyDict
                    ELSE Put(Build(k - 1), deps[k].name,
                             node_names[((k - 1) % Len(node_names)) + 1])
    IN  Build(Len(deps))

\* _compute_spread
compute_spread(deps, ns, node_names) ==
    LET assignments == SpreadLoop(deps, node_names)
    IN  Return([ strategy |-> "spread",
                 assignments |-> assignments,
                 seed |-> None,
                 metadata |-> [distribution |-> Distribution(assignments)] ])

\* random.Random(seed) that ignores its argument and always self-seeds.
RngSeed_Unseeded(seed, entropy) == entropy

\* random.Random(seed): the generator's initial state is a function of the
\* seed when one is given, and of the process's entropy source otherwise.
RngSeed(seed, entropy) == IF seed = None THEN entropy ELSE seed[1] % 16

\* One step of the generator.  The Mersenne Twister of the standard library
\* is replaced by a small full-period congruential generator: what the
\* planner relies on is that the next state and the value drawn are
\* functions of the current state.
RngStep(state) == (5 * state + 3) % 16

\* rng.choice(seq), as the 0-based index drawn in the state after the step.
RngIndex(state, n) == (state \div 2) % n

\* {d.name: rng.choice(node_names) for d in deployments}: one draw per
\* deployment, in list order, from one generator.
RandomLoop(deps, node_names, state0) ==
    LET RECURSIVE State(_)
        State(k) == IF k = 0 THEN state0 ELSE RngStep(State(k - 1))
        RECURSIVE Build(_)
        Build(k) == IF k = 0 THEN EmptyDict
                    ELSE Put(Build(k - 1), deps[k].name,
                             node_names[RngIndex(State(k), Len(node_names)) + 1])
    IN  Build(Len(deps))

\* _compute_random
compute_random(deps, ns, node_names, seed, entropy) ==
    LET assignments == RandomLoop(deps, node_names, RngSeed(seed, entropy))
    IN  Return([ strategy |-> "random",
                 assignments |-> assignments,
                 seed |-> seed,
                 metadata |-> [distribution |-> Distribution(assignments)] ])

\* The antagonistic score by CPU request alone.
Score_CpuOnly(d) == d.cpu_request_millicores * MiB

\* score = cpu_request_millicores + memory_request_bytes / (1024 * 1024), a
\* float in the code.  It is kept here multiplied by 2^20, which is exact
\* (the division is by a power of two) and preserves the order.
Score(d) == d.cpu_request_millicores * MiB + d.memory_request_bytes

\* scored.sort(key=score, reverse=True): descending and stable, so that
\* deployments of equal score keep the order they were listed in.
SortedByScore(deps) ==
    LET Insert(sorted, d) ==
            LET k == Cardinality({i \in DOMAIN sorted : Score(sorted[i]) >= Score(d)})
            IN  SubSeq(sorted, 1, k) \o <<d>> \o SubSeq(sorted, k + 1, Len(sorted))
        RECURSIVE Sort(_)
        Sort(k) == IF k = 0 THEN <<>> ELSE Insert(Sort(k - 1), deps[k])
    IN  Sort(Len(deps))

\* midpoint = max(1, len(scored) // 2)
Midpoint(n) == Max(1, n \div 2)

\* light_nodes[idx % len(light_nodes)] replaced by light_nodes[0].
LightNodeAt_First(light_nodes, idx) == light_nodes[1]

\* light_nodes[idx % len(light_nodes)], idx being the 0-based position of
\* the deployment in the sorted list.
LightNodeAt(light_nodes, idx) == light_nodes[(idx % Len(light_nodes)) + 1]

\* heavy_names: the names appended where idx < midpoint, idx being the
\* 0-based position in the sorted list.
HeavyNames(scored, midpoint) ==
    LET RECURSIVE Names(_)
        Names(k) == IF k = 0 THEN <<>>
                    ELSE IF (k - 1) < midpoint
                         THEN Append(Names(k - 1), scored[k].name)
                         ELSE Names(k - 1)
    IN  Names(Len(scored))

\* light_names appended to only where idx > midpoint.
LightNames_AfterMidpoint(scored, midpoint) ==
    LET RECURSIVE Names(_)
        Names(k) == IF k = 0 THEN <<>>
                    ELSE IF (k - 1) > midpoint
                         THEN Append(Names(k - 1), scored[k].name)
                         ELSE Names(k - 1)
    IN  Names(Len(scored))

\* light_names: the names appended in the else branch, where idx >= midpoint.
LightNames(scored, midpoint) ==
    LET RECURSIVE Names(_)
        Names(k) == IF k = 0 THEN <<>>
                    ELSE IF (k - 1) < midpoint
                         THEN Names(k - 1)
                         ELSE Append(Names(k - 1), scored[k].name)
    IN  Names(Len(scored))

\* assignments of the loop: heavy_node where idx < midpoint, and
\* light_nodes[idx % len(light_nodes)] otherwise.
AntagonisticLoop(scored, heavy_node, light_nodes, midpoint) ==
    LET RECURSIVE Build(_)
        Build(k) ==
            IF k = 0 THEN EmptyDict
            ELSE Put(Build(k - 1), scored[k].name,
                     IF (k - 1) < midpoint THEN heavy_node
                     ELSE LightNodeAt(light_nodes, k - 1))
    IN  Build(Len(scored))

\* _compute_antagonistic
compute_antagonistic(deps, ns, node_names) ==
    IF Len(node_names) < 2
    THEN Return([ strategy |-> "antagonistic",
                  assignments |-> AllTo(deps, node_names[1]),
                  seed |-> None,
                  metadata |-> [ heavy_node |-> node_names[1],
                                 light_node |-> node_names[1] ] ])
    ELSE
      LET scored == SortedByScore(deps)
          heavy_node == pick_best_worker(ns)
          others == SelectSeq(node_names, LAMBDA n : n # heavy_node)
          light_nodes == IF others = <<>> THEN node_names ELSE others
          midpoint == Midpoint(Len(scored))
      IN  Return([ strategy |-> "antagonistic",
                   assignments |-> AntagonisticLoop(scored, heavy_node, light_nodes, midpoint),
                   seed |-> None,
                   metadata |-> [ heavy_node |-> heavy_node,
                                  heavy_deployments |-> HeavyNames(scored, midpoint),
                                  light_deployments |-> LightNames(scored, midpoint) ] ])

\* schedulable = [n for n in nodes if n.is_schedulable], with ready nodes
\* taken as schedulable whatever their taints.
Schedulable_ReadyOnly(ns) == SelectSeq(ns, LAMBDA n : n.conditions_ready)

\* schedulable = [n for n in nodes if n.is_schedulable]
Schedulable(ns) == SelectSeq(ns, is_schedulable)

\* node_names = [n.name for n in schedulable]
NodeNamesOf(ns) == [i \in 1..Len(ns) |-> ns[i].name]

\* compute_assignments.  `entropy` is what an unseeded generator would seed
\* itself from during this call.  The final else branch is unreachable for
\* a strategy that is a member of the enum.
compute_assignments(strategy, deps, ns, target_node, seed, entropy) ==
    LET schedulable == Schedulable(ns)
        node_names == NodeNamesOf(schedulable)
    IN  IF schedulable = <<>>
        THEN Raise("No schedulable")
        ELSE CASE strategy = "colocate" ->
                      compute_colocate(deps, schedulable, node_names, target_node)
               [] strategy = "spread" ->
                      compute_spread(deps, schedulable, node_names)
               [] strategy = "random" ->
                      compute_random(deps, schedulable, node_names, seed, entropy)
               [] strategy = "antagonistic" ->
                      compute_antagonistic(deps, schedulable, node_names)

\* ------------------------------------------------------ state machine

\* No call has been made yet.
NoCall == [strategy |-> "none"]

\* A call and what it did.
Call(strategy, target_node, seed, outcome) ==
    [ strategy |-> strategy,
      target_node |-> target_node,
      seed |-> seed,
      outcome |-> outcome ]

\* One planning session: the cluster listing it works on, no call made.
PlannerInit ==
    /\ deployments \in DeploymentLists
    /\ nodes \in NodeLists
    /\ last = NoCall
    /\ repeated = FALSE
    /\ cluster = None
    /\ mutator = None
    /\ clock = 0
    /\ watcher = None
    /\ workers = <<>>
    /\ caller = None
    /\ stream = <<>>
    /\ delivered = 0
    /\ summarized = None
    /\ serialized = None
    /\ polled = None

\* `repeated` records that the call just made is a random placement that
\* repeats the seed argument of a random placement made just before it.
Invoke(strategy, target_node, seed, entropy) ==
    /\ last' = Call(strategy, target_node, seed,
                    compute_assignments(strategy, deployments, nodes,
                                        target_node, seed, entropy))
    /\ repeated' = /\ strategy = "random"
                   /\ last.strategy = "random"
                   /\ last.seed = seed
    /\ UNCHANGED <<deployments, nodes, mutator_vars, watcher_vars, pure_vars>>

\* compute_assignments(COLOCATE, deployments, nodes, target_node=...)
ComputeColocate == \E t \in TargetNodes : Invoke("colocate", t, None, 0)

\* compute_assignments(SPREAD, deployments, nodes)
ComputeSpread == Invoke("spread", None, None, 0)

\* compute_assignments(RANDOM, deployments, nodes, seed=...)
ComputeRandom == \E s \in Seeds, e \in Entropy : Invoke("random", None, s, e)

\* compute_assignments(ANTAGONISTIC, deployments, nodes)
ComputeAntagonistic == Invoke("antagonistic", None, None, 0)

PlannerNext ==
    \/ ComputeColocate
    \/ ComputeSpread
    \/ ComputeRandom
    \/ ComputeAntagonistic

PlannerSpec == PlannerInit /\ [][PlannerNext]_vars

\* ============================================================= claims
\* Vocabulary of the claims, read off the current state.

\* A compute_assignments call has been made.
Called == last.strategy # "none"

\* The last call returned a NodeAssignment.
Returned == Called /\ last.outcome.kind = "return"

Assignments == last.outcome.value.assignments

Metadata == last.outcome.value.metadata

\* The workload names the caller asked to place.
RequestedNames == {deployments[i].name : i \in DOMAIN deployments}

\* The input nodes whose is_schedulable is true, in the order received.
SchedList == SelectSeq(nodes, is_schedulable)

SchedulableNodes == {SchedList[i] : i \in DOMAIN SchedList}

SchedulableNames == {n.name : n \in SchedulableNodes}

\* The node called `name` is a schedulable node maximising the pair
\* (not control plane, allocatable CPU), the first component having priority.
IsBestByRule(name) ==
    \E n \in SchedulableNodes :
        /\ n.name = name
        /\ \A m \in SchedulableNodes :
              /\ ~is_control_plane(m) => ~is_control_plane(n)
              /\ (is_control_plane(m) <=> is_control_plane(n))
                    => m.allocatable_cpu_millicores <= n.allocatable_cpu_millicores

\* The node called `name` is a schedulable node that is not a control plane.
IsWorker(name) ==
    \E n \in SchedulableNodes : n.name = name /\ ~is_control_plane(n)

\* The score of the requested workload called k: CPU millicores plus memory
\* in MiB, in units of 2^-20.
ScoreOfName(k) ==
    LET d == CHOOSE d \in {deployments[i] : i \in DOMAIN deployments} : d.name = k
    IN  d.cpu_request_millicores * 1048576 + d.memory_request_bytes

SetOf(seq) == {seq[i] : i \in DOMAIN seq}

\* C1: every call that returns maps exactly the requested workload names,
\* each to the name of an input node whose is_schedulable is true.
C1_KeysAndSchedulableValues ==
    Returned =>
        /\ DOMAIN Assignments = RequestedNames
        /\ \A k \in DOMAIN Assignments : Assignments[k] \in SchedulableNames

\* C1 witness: a random placement of several workloads returned for a
\* listing that holds an unschedulable node beside two schedulable ones.
C1_Witness ==
    /\ Returned
    /\ last.strategy = "random"
    /\ Len(deployments) >= 2
    /\ Len(SchedList) >= 2
    /\ Len(SchedList) < Len(nodes)

\* C2: colocate maps every workload to one schedulable node: the caller's
\* target when one is given, otherwise a schedulable node maximising
\* (not control plane, CPU) in that priority order, hence a worker whenever
\* a schedulable worker exists.
C2_ColocateOneBestNode ==
    (Returned /\ last.strategy = "colocate") =>
        LET chosen == Metadata.target_node
        IN  /\ chosen \in SchedulableNames
            /\ DOMAIN Assignments = RequestedNames
            /\ \A k \in DOMAIN Assignments : Assignments[k] = chosen
            /\ IF Truthy(last.target_node)
               THEN chosen = last.target_node[1]
               ELSE /\ IsBestByRule(chosen)
                    /\ (\E n \in SchedulableNodes : ~is_control_plane(n))
                          => IsWorker(chosen)

\* C2 witness: no target given, a schedulable control plane with more CPU
\* than a schedulable worker is listed, and the workloads went to a worker.
C2_Witness ==
    /\ Returned
    /\ last.strategy = "colocate"
    /\ last.target_node = None
    /\ Len(deployments) >= 2
    /\ \E c, w \in SchedulableNodes :
          /\ is_control_plane(c)
          /\ ~is_control_plane(w)
          /\ c.allocatable_cpu_millicores > w.allocatable_cpu_millicores
    /\ IsWorker(Metadata.target_node)

\* C3 as stated: colocate with a target (a non-empty name) that is not the
\* name of a schedulable input node raises the "not found" error.
C3_Original ==
    ( /\ Called
      /\ last.strategy = "colocate"
      /\ Truthy(last.target_node)
      /\ last.target_node[1] \notin SchedulableNames )
        => last.outcome = Raise("not found")

\* C3 amended: colocate with a non-empty target that is not the name of a
\* schedulable input node raises the "not found" error and returns nothing,
\* provided at least one input node is schedulable.
C3_UnknownTargetRaises ==
    ( /\ Called
      /\ last.strategy = "colocate"
      /\ Truthy(last.target_node)
      /\ last.target_node[1] \notin SchedulableNames
      /\ SchedulableNames # {} )
        => last.outcome = Raise("not found")

\* C3 witness: the target names a listed node that is not schedulable,
\* another node is, and the call raised "not found".
C3_Witness ==
    /\ Called
    /\ last.strategy = "colocate"
    /\ Truthy(last.target_node)
    /\ \E i \in DOMAIN nodes :
          nodes[i].name = last.target_node[1] /\ ~is_schedulable(nodes[i])
    /\ SchedulableNames # {}
    /\ last.outcome = Raise("not found")

\* The node is not ready, or carries a control-plane NoSchedule taint.
NotReadyOrTainted(n) ==
    \/ ~n.conditions_ready
    \/ \E i \in DOMAIN n.taints :
          /\ n.taints[i].key \in { "node-role.kubernetes.io/master",
                                   "node-role.kubernetes.io/control-plane" }
          /\ n.taints[i].effect = "NoSchedule"

\* C4: when every input node is not ready or carries a control-plane
\* NoSchedule taint, the call raises the "No schedulable" error, whatever
\* the strategy, workloads, target and seed.
C4_NoSchedulableRaises ==
    (Called /\ \A i \in DOMAIN nodes : NotReadyOrTainted(nodes[i]))
        => last.outcome = Raise("No schedulable")

\* C4 witness: a colocate call with a target, on a listing of one node that
\* is not ready and one that is tainted, raised "No schedulable".
C4_Witness ==
    /\ Called
    /\ last.strategy = "colocate"
    /\ Truthy(last.target_node)
    /\ Len(deployments) >= 1
    /\ \E i, j \in DOMAIN nodes :
          /\ ~nodes[i].conditions_ready
          /\ nodes[j].conditions_ready
          /\ NotReadyOrTainted(nodes[j])
    /\ \A i \in DOMAIN nodes : NotReadyOrTainted(nodes[i])
    /\ last.outcome = Raise("No schedulable")

\* C5: spread maps the i-th workload to the schedulable node at index
\* i mod M, and the per-node workload counts differ by at most one.
C5_SpreadRoundRobin ==
    (Returned /\ last.strategy = "spread") =>
        /\ \A i \in DOMAIN deployments :
              Assignments[deployments[i].name]
                  = SchedList[((i - 1) % Len(SchedList)) + 1].name
        /\ \A a, b \in SchedulableNames :
              CountValue(Assignments, a) - CountValue(Assignments, b) <= 1

\* C5 witness: four workloads spread over three schedulable nodes, one of
\* which received two.
C5_Witness ==
    /\ Returned
    /\ last.strategy = "spread"
    /\ Len(deployments) = 4
    /\ Len(SchedList) = 3
    /\ \E a \in SchedulableNames : CountValue(Assignments, a) = 2

\* C6: two random placements with the same seed, on the same workload list
\* and node list, return identical mappings.  (A seed of None is no seed:
\* the generator then seeds itself and the claim does not apply.)
C6_SeededRandomDeterministic ==
    [][ ( /\ last.strategy = "random"
          /\ last'.strategy = "random"
          /\ last.seed # None
          /\ last'.seed = last.seed
          /\ deployments' = deployments
          /\ nodes' = nodes )
            => /\ last'.outcome.kind = last.outcome.kind
               /\ last.outcome.kind = "return"
                     => last'.outcome.value.assignments
                            = last.outcome.value.assignments ]_vars

\* C6 witness: a seeded random placement of several workloads over several
\* nodes was made twice in a row and returned.
C6_Witness ==
    /\ repeated
    /\ Returned
    /\ last.seed # None
    /\ Len(deployments) >= 2
    /\ Len(SchedList) >= 2
    /\ Cardinality({Assignments[k] : k \in DOMAIN Assignments}) >= 2

\* C7: antagonistic with at least two schedulable nodes: the recorded heavy
\* and light sets are disjoint and their union is the requested workload set.
C7_HeavyLightPartition ==
    (Returned /\ last.strategy = "antagonistic" /\ Len(SchedList) >= 2) =>
        LET H == SetOf(Metadata.heavy_deployments)
            L == SetOf(Metadata.light_deployments)
        IN  /\ H \cap L = {}
            /\ H \cup L = RequestedNames

\* C7 witness: four workloads, two recorded heavy and two recorded light.
C7_Witness ==
    /\ Returned
    /\ last.strategy = "antagonistic"
    /\ Len(SchedList) >= 2
    /\ Len(Metadata.heavy_deployments) = 2
    /\ Len(Metadata.light_deployments) = 2

\* C8: antagonistic with at least two schedulable nodes and n workloads:
\* the heavy list is the first max(1, n // 2) workloads in descending score
\* order, so no other workload scores higher than a heavy one; every heavy
\* workload is mapped to the heavy node; and the heavy node is the node
\* colocate's default rule picks, a worker whenever a schedulable one exists.
C8_HeavyHalfOnBestNode ==
    (Returned /\ last.strategy = "antagonistic" /\ Len(SchedList) >= 2) =>
        LET n == Len(deployments)
            heavy == Metadata.heavy_deployments
            H == SetOf(heavy)
        IN  /\ Len(heavy) = (IF n = 0 THEN 0 ELSE Max(1, n \div 2))
            /\ Cardinality(H) = Len(heavy)
            /\ H \subseteq RequestedNames
            /\ \A i, j \in DOMAIN heavy :
                  i < j => ScoreOfName(heavy[i]) >= ScoreOfName(heavy[j])
            /\ \A h \in H : \A l \in RequestedNames \ H :
                  ScoreOfName(l) <= ScoreOfName(h)
            /\ \A h \in H : Assignments[h] = Metadata.heavy_node
            /\ IsBestByRule(Metadata.heavy_node)
            /\ (\E m \in SchedulableNodes : ~is_control_plane(m))
                  => IsWorker(Metadata.heavy_node)

\* C8 witness: four workloads listed with a lower-scoring one first, a
\* schedulable control plane and a worker listed, two workloads heavy.
C8_Witness ==
    /\ Returned
    /\ last.strategy = "antagonistic"
    /\ Len(deployments) = 4
    /\ ScoreOfName(deployments[1].name) < ScoreOfName(deployments[2].name)
    /\ \E c, w \in SchedulableNodes : is_control_plane(c) /\ ~is_control_plane(w)
    /\ Len(Metadata.heavy_deployments) = 2
    /\ deployments[1].name \notin SetOf(Metadata.heavy_deployments)

\* C9: antagonistic with at least two schedulable nodes: every light
\* workload is mapped to a schedulable node other than the heavy node,
\* consecutive light workloads go to cyclically consecutive other nodes, and
\* the numbers of light workloads per other node differ by at most one.
C9_LightRoundRobin ==
    (Returned /\ last.strategy = "antagonistic" /\ Len(SchedList) >= 2) =>
        LET light == Metadata.light_deployments
            L == SetOf(light)
            others == SelectSeq(SchedList, LAMBDA n : n.name # Metadata.heavy_node)
            IndexOf(name) == CHOOSE i \in DOMAIN others : others[i].name = name
            LightOn(i) == Cardinality({l \in L : Assignments[l] = others[i].name})
        IN  /\ others # <<>>
            /\ \A l \in L : \E i \in DOMAIN others : Assignments[l] = others[i].name
            /\ \A j \in 1..(Len(light) - 1) :
                  IndexOf(Assignments[light[j + 1]])
                      = (IndexOf(Assignments[light[j]]) % Len(others)) + 1
            /\ \A a, b \in DOMAIN others : LightOn(a) - LightOn(b) <= 1

\* C9 witness: three schedulable nodes, and the light workloads went to
\* both nodes other than the heavy node.
C9_Witness ==
    /\ Returned
    /\ last.strategy = "antagonistic"
    /\ Len(SchedList) = 3
    /\ Len(Metadata.light_deployments) >= 2
    /\ Cardinality({Assignments[l] : l \in SetOf(Metadata.light_deployments)}) = 2

\* C10: when exactly one input node is schedulable, colocate without a
\* target and antagonistic both return and map every requested workload to
\* that node.
C10_SingleNodeFallback ==
    ( /\ Called
      /\ Len(SchedList) = 1
      /\ \/ last.strategy = "antagonistic"
         \/ last.strategy = "colocate" /\ ~Truthy(last.target_node) )
        => /\ Returned
           /\ DOMAIN Assignments = RequestedNames
           /\ \A k \in RequestedNames : Assignments[k] = SchedList[1].name

\* C10 witness: an antagonistic placement of workloads with different
\* requests on a listing of three nodes of which one is schedulable.
C10_Witness ==
    /\ Returned
    /\ last.strategy = "antagonistic"
    /\ Len(nodes) = 3
    /\ Len(SchedList) = 1
    /\ Len(deployments) >= 2
    /\ \E i, j \in DOMAIN deployments :
          ScoreOfName(deployments[i].name) # ScoreOfName(deployments[j].name)
    /\ \A k \in RequestedNames : Assignments[k] = SchedList[1].name

\* ============================================ placement mutator
\* chaosprobe/placement/mutator.py: PlacementMutator applies an assignment
\* to the cluster and clears it again.  The cluster is a record
\*   node_selector   deployment name -> spec.template.spec.nodeSelector
\*   annotations     deployment name -> metadata.annotations
\*   labels          node name -> metadata.labels
\* each a dict of strings; an absent map reads as None and the code takes
\* `... or {}`, so an absent map is the empty dict.  A patch is a dict whose
\* values are Optional: None asks for the key to be removed.

PLACEMENT_LABEL_KEY == "chaosprobe.io/placement-zone"

MANAGED_ANNOTATION == "chaosprobe.io/placement-strategy"

\* The deployments of the namespace, in the order list_namespaced_deployment
\* returns them.
ClusterDeployments == <<"cache", "db", "web">>

DeploymentNames == {ClusterDeployments[i] : i \in DOMAIN ClusterDeployments}

ClusterNodes == {"w1", "w2"}

\* A nodeSelector key of the user's own, carried by "web" from the start.
UserSelector(name) ==
    IF name = "web" THEN ("disktype" :> "ssd") ELSE EmptyDict

\* An annotation of the user's own, carried by "db" from the start.
UserAnnotations(name) ==
    IF name = "db" THEN ("owner" :> "shop") ELSE EmptyDict

\* The cluster before the mutator has touched it.
FreshCluster ==
    [node_selector |-> [d \in DeploymentNames |-> UserSelector(d)],
     annotations   |-> [d \in DeploymentNames |-> UserAnnotations(d)],
     labels        |-> [n \in ClusterNodes |-> EmptyDict]]

\* The API server applies a patch of a string map as a strategic merge: a
\* key patched to None is removed, a key patched to a value is set, a key
\* the patch does not name is kept.
MergeDict(cur, patch) ==
    LET removed == {k \in DOMAIN patch : patch[k] = None}
        keys    == ((DOMAIN cur) \cup (DOMAIN patch)) \ removed
    IN  [k \in keys |-> IF k \in DOMAIN patch THEN patch[k][1] ELSE cur[k]]

\* A map field patched to None is removed as a whole.
MergeField(cur, patch) ==
    IF patch = None THEN EmptyDict ELSE MergeDict(cur, patch[1])

\* core_api.patch_node(name, {"metadata": {"labels": labels}})
patch_node(c, name, labels) ==
    [c EXCEPT !.labels[name] = MergeDict(@, labels)]

\* apps_api.patch_namespaced_deployment(name, namespace, body), the body
\* given by its metadata.annotations and spec.template.spec.nodeSelector.
patch_namespaced_deployment(c, name, body) ==
    [c EXCEPT !.annotations[name]   = MergeDict(@, body.annotations),
              !.node_selector[name] = MergeField(@, body.nodeSelector)]

\* The call on `name` raises ApiException: the server rejects it (`failing`)
\* or the object does not exist.
ApiRaises(name, existing, failing) == name \in failing \/ name \notin existing

Zone_Shared(node_name) == "zone"

\* zone = f"zone-{node_name}"
Zone(node_name) == "zone-" \o node_name

\* _label_node: an ApiException is caught and reported.
_label_node(c, node_name, label_key, label_value, failing) ==
    IF ApiRaises(node_name, ClusterNodes, failing)
    THEN c
    ELSE patch_node(c, node_name, label_key :> Some(label_value))

\* _patch_deployment_placement: an ApiException is caught and reported.
_patch_deployment_placement(c, deployment_name, zone, strategy_name, failing) ==
    IF ApiRaises(deployment_name, DeploymentNames, failing)
    THEN c
    ELSE patch_namespaced_deployment(c, deployment_name,
             [annotations  |-> MANAGED_ANNOTATION :> Some(strategy_name),
              nodeSelector |-> Some(PLACEMENT_LABEL_KEY :> Some(zone))])

\* A NodeAssignment: the strategy's value and the dict name -> node name.
NodeAssignment(strategy, assignments) ==
    [strategy |-> strategy, assignments |-> assignments]

\* for node_name, zone in node_zones.items(): self._label_node(...)
RECURSIVE LabelLoop(_, _, _)
LabelLoop(c, node_names, failing) ==
    IF node_names = {} THEN c
    ELSE LET n == CHOOSE n \in node_names : TRUE
         IN  LabelLoop(_label_node(c, n, PLACEMENT_LABEL_KEY, Zone(n), failing),
                       node_names \ {n}, failing)

\* for dep_name, node_name in assignment.assignments.items():
\*     self._patch_deployment_placement(dep_name, node_zones[node_name], ...)
RECURSIVE PatchLoop(_, _, _, _)
PatchLoop(c, assignment, dep_names, failing) ==
    IF dep_names = {} THEN c
    ELSE LET d == CHOOSE d \in dep_names : TRUE
         IN  PatchLoop(_patch_deployment_placement(
                           c, d, Zone(assignment.assignments[d]),
                           assignment.strategy, failing),
                       assignment, dep_names \ {d}, failing)

\* _apply_assignment: label the target nodes, then patch the deployments.
\* The calls that raised are the warnings printed.
_apply_assignment(c, assignment, failing) ==
    LET targets == {assignment.assignments[d] : d \in DOMAIN assignment.assignments}
        labelled == LabelLoop(c, targets, failing)
    IN  [cluster  |-> PatchLoop(labelled, assignment,
                                DOMAIN assignment.assignments, failing),
         warnings |-> {n \in targets : ApiRaises(n, ClusterNodes, failing)}
                      \cup {d \in DOMAIN assignment.assignments :
                               ApiRaises(d, DeploymentNames, failing)}]

\* del d[k]
Without(d, k) == [x \in (DOMAIN d) \ {k} |-> d[x]]

\* A dict sent as a patch: every key asks for its value.
AsPatch(d) == [k \in DOMAIN d |-> Some(d[k])]

\* `if deployments and name not in deployments: continue`; dep_filter is the
\* `deployments` argument: None, or the set of names of the list given.
FilteredOut(dep_filter, name) ==
    /\ dep_filter # None
    /\ dep_filter[1] # {}
    /\ name \notin dep_filter[1]

IsManaged_Always(annotations) == TRUE

\* `MANAGED_ANNOTATION not in annotations` is false.
IsManaged(annotations) == MANAGED_ANNOTATION \in DOMAIN annotations

\* The loop of clear_placement over the listed deployments.  The patch call
\* is not guarded: an ApiException leaves the loop and the function.
RECURSIVE ClearLoop(_, _, _, _, _)
ClearLoop(c, all_deps, dep_filter, failing, cleared) ==
    IF all_deps = <<>>
    THEN [cluster |-> c, cleared |-> cleared, raised |-> FALSE]
    ELSE
        LET name          == Head(all_deps)
            node_selector == Without(c.node_selector[name], PLACEMENT_LABEL_KEY)
            patch ==
                [annotations  |-> MANAGED_ANNOTATION :> None,
                 nodeSelector |-> IF DOMAIN node_selector # {}
                                  THEN Some(AsPatch(node_selector))
                                  ELSE None]
        IN  IF FilteredOut(dep_filter, name)
            THEN ClearLoop(c, Tail(all_deps), dep_filter, failing, cleared)
            ELSE IF ~IsManaged(c.annotations[name])
            THEN ClearLoop(c, Tail(all_deps), dep_filter, failing, cleared)
            ELSE IF PLACEMENT_LABEL_KEY \notin DOMAIN c.node_selector[name]
            THEN ClearLoop(c, Tail(all_deps), dep_filter, failing, cleared)
            ELSE IF ApiRaises(name, DeploymentNames, failing)
            THEN [cluster |-> c, cleared |-> cleared, raised |-> TRUE]
            ELSE ClearLoop(patch_namespaced_deployment(c, name, patch),
                           Tail(all_deps), dep_filter, failing,
                           Append(cleared, name))

\* _cleanup_node_labels: the placement label is removed from every node that
\* has it; an ApiException is swallowed.
RECURSIVE CleanupLoop(_, _, _)
CleanupLoop(c, node_names, failing) ==
    IF node_names = {} THEN c
    ELSE
        LET n == CHOOSE n \in node_names : TRUE
            next == IF /\ PLACEMENT_LABEL_KEY \in DOMAIN c.labels[n]
                       /\ ~ApiRaises(n, ClusterNodes, failing)
                    THEN patch_node(c, n, PLACEMENT_LABEL_KEY :> None)
                    ELSE c
        IN  CleanupLoop(next, node_names \ {n}, failing)

_cleanup_node_labels(c, failing) == CleanupLoop(c, ClusterNodes, failing)

\* clear_placement up to its wait: the loop, then the node labels.
clear_placement(c, dep_filter, failing) ==
    LET r == ClearLoop(c, ClusterDeployments, dep_filter, failing, <<>>)
    IN  IF r.raised THEN r
        ELSE [r EXCEPT !.cluster = _cleanup_node_labels(r.cluster, failing)]

\* dict.get(key): None when the key is absent.
Get(d, k) == IF k \in DOMAIN d THEN Some(d[k]) ELSE None

\* get_current_placement, without the currentNode read from the pods.
get_current_placement(c) ==
    [name \in DeploymentNames |->
        LET strategy == Get(c.annotations[name], MANAGED_ANNOTATION)
        IN  [strategy   |-> strategy,
             targetZone |-> Get(c.node_selector[name], PLACEMENT_LABEL_KEY),
             managed    |-> strategy # None]]

\* ---------------------------------------------- _wait_for_rollouts

\* What read_namespaced_deployment shows of a rollout; every field is
\* Optional, as the client returns None for a field the server left out.
RolloutStatus(replicas, generation, observed_generation, ready_replicas, updated_replicas, available_replicas) ==
    [replicas            |-> replicas,
     generation          |-> generation,
     observed_generation |-> observed_generation,
     ready_replicas      |-> ready_replicas,
     updated_replicas    |-> updated_replicas,
     available_replicas  |-> available_replicas]

\* Python `x or default` on an Optional[int]: None and 0 are falsy.
OrDefault(opt, default) ==
    IF opt = None \/ opt[1] = 0 THEN default ELSE opt[1]

\* The convergence test of the polling loop.
Converged(dep) ==
    LET desired    == OrDefault(dep.replicas, 1)
        generation == OrDefault(dep.generation, 0)
        observed   == OrDefault(dep.observed_generation, 0)
        ready      == OrDefault(dep.ready_replicas, 0)
        updated    == OrDefault(dep.updated_replicas, 0)
        available  == OrDefault(dep.available_replicas, 0)
    IN  /\ observed >= generation
        /\ updated >= desired
        /\ ready >= desired
        /\ available >= desired

\* The rollouts a poll can meet: complete; the controller has not observed
\* the patched generation yet; replicas updated but not yet ready; a
\* deployment without replica count or status counts.
StatusCatalog ==
    {RolloutStatus(Some(2), Some(3), Some(3), Some(2), Some(2), Some(2)),
     RolloutStatus(Some(2), Some(4), Some(3), Some(2), Some(2), Some(2)),
     RolloutStatus(Some(2), Some(4), Some(4), Some(1), Some(2), Some(1)),
     RolloutStatus(None, Some(1), Some(1), Some(1), Some(1), Some(1)),
     RolloutStatus(None, Some(1), None, None, None, None)}

\* What read_namespaced_deployment can do: return a deployment, or raise
\* ApiException.
ReadResults ==
    {[raises |-> FALSE, dep |-> s] : s \in StatusCatalog}
        \cup {[raises |-> TRUE,
               dep |-> RolloutStatus(None, None, None, None, None, None)]}

\* still_pending after one pass over `pending`, reads[name] being what the
\* read of `name` did.
StillPending(pending, reads) ==
    {name \in pending : reads[name].raises \/ ~Converged(reads[name].dep)}

\* `if pending: time.sleep(3)` at the end of a pass.
SleepSeconds(pending) == IF pending # {} THEN 3 ELSE 0

LoopContinues_NoTimeout(pending, elapsed, timeout) == pending # {}

\* `while pending and (time.time() - start) < timeout`
LoopContinues(pending, elapsed, timeout) == pending # {} /\ elapsed < timeout

\* ------------------------------------------------- mutator state machine
\* `mutator` is the call in progress or last made: its arguments, the
\* warnings printed for calls that raised, the list clear_placement
\* returns, and the locals of _wait_for_rollouts while it runs (`elapsed` is
\* time.time() - start at the loop test, in seconds).

\* The assignments handed to apply_assignment; "gone" is not a deployment
\* of the namespace.
AssignmentInputs ==
    {NodeAssignment("colocate",
                    ("cache" :> "w1") @@ ("db" :> "w1") @@ ("web" :> "w1")),
     NodeAssignment("spread",
                    ("cache" :> "w1") @@ ("db" :> "w2") @@ ("web" :> "w1")),
     NodeAssignment("random", ("db" :> "w1") @@ ("web" :> "w2")),
     NodeAssignment("spread", ("cache" :> "w2") @@ ("gone" :> "w2"))}

\* The sets of objects on which the API server rejects a patch.
FailingCalls == {{}, {"db"}, {"w1"}}

\* The `deployments` arguments of clear_placement.
Filters == {None, Some({}), Some({"web"}), Some({"cache", "db"})}

\* The (wait, timeout) arguments: None is wait = False, Some(t) is wait =
\* True with a timeout of t seconds.
WaitArgs == {None, Some(1), Some(6)}

\* The seconds a pass over the pending deployments can take.
PassSeconds == {0, 1}

NoWait == [pending |-> {}, elapsed |-> 0, timeout |-> 0]

Idle ==
    [op |-> "none", assignment |-> NodeAssignment("none", EmptyDict),
     dep_filter |-> None, warnings |-> {}, cleared |-> <<>>,
     outcome |-> "return", unconverged |-> {}, wait |-> NoWait]

\* _wait_for_rollouts up to its loop: start = time.time(); time.sleep(2);
\* pending = set(deployment_names).
EnterWait(names, timeout) ==
    [pending |-> names, elapsed |-> 2, timeout |-> timeout]

MutatorInit ==
    /\ deployments = <<>>
    /\ nodes = <<>>
    /\ last = NoCall
    /\ repeated = FALSE
    /\ cluster = FreshCluster
    /\ mutator = Idle
    /\ clock = 0
    /\ watcher = None
    /\ workers = <<>>
    /\ caller = None
    /\ stream = <<>>
    /\ delivered = 0
    /\ summarized = None
    /\ serialized = None
    /\ polled = None

\* apply_assignment(assignment, wait, timeout)
ApplyAssignment ==
    \E assignment \in AssignmentInputs, failing \in FailingCalls,
       wait \in WaitArgs :
        LET r == _apply_assignment(cluster, assignment, failing)
        IN  /\ mutator.outcome # "running"
            /\ cluster' = r.cluster
            /\ mutator' =
                 [Idle EXCEPT
                    !.op = "apply_assignment",
                    !.assignment = assignment,
                    !.warnings = r.warnings,
                    !.outcome = IF wait # None THEN "running" ELSE "return",
                    !.wait = IF wait # None
                             THEN EnterWait(DOMAIN assignment.assignments,
                                            wait[1])
                             ELSE NoWait]
            /\ UNCHANGED <<planner_vars, watcher_vars, pure_vars>>

\* clear_placement(deployments, wait, timeout)
ClearPlacement ==
    \E f \in Filters, failing \in FailingCalls, wait \in WaitArgs :
        LET r == clear_placement(cluster, f, failing)
            waits == ~r.raised /\ wait # None /\ r.cleared # <<>>
        IN  /\ mutator.outcome # "running"
            /\ cluster' = r.cluster
            /\ mutator' =
                 [Idle EXCEPT
                    !.op = "clear_placement",
                    !.dep_filter = f,
                    !.cleared = r.cleared,
                    !.outcome = IF r.raised THEN "raise"
                                ELSE IF waits THEN "running" ELSE "return",
                    !.wait = IF waits
                             THEN EnterWait(SetOf(r.cleared), wait[1])
                             ELSE NoWait]
            /\ UNCHANGED <<planner_vars, watcher_vars, pure_vars>>

\* One pass of the loop of _wait_for_rollouts: every pending deployment is
\* read, then time.sleep(3) if any is still pending.
WaitPoll ==
    /\ mutator.outcome = "running"
    /\ LoopContinues(mutator.wait.pending, mutator.wait.elapsed,
                     mutator.wait.timeout)
    /\ \E reads \in [mutator.wait.pending -> ReadResults], took \in PassSeconds :
          LET still == StillPending(mutator.wait.pending, reads)
          IN  mutator' =
                [mutator EXCEPT
                   !.wait.pending = still,
                   !.wait.elapsed = @ + took + SleepSeconds(still)]
    /\ UNCHANGED <<planner_vars, cluster, watcher_vars, pure_vars>>

\* The loop is left: a warning is printed for every deployment still
\* pending, and the call returns.
WaitReturn ==
    /\ mutator.outcome = "running"
    /\ ~LoopContinues(mutator.wait.pending, mutator.wait.elapsed,
                      mutator.wait.timeout)
    /\ mutator' = [mutator EXCEPT !.outcome = "return",
                                  !.unconverged = mutator.wait.pending,
                                  !.wait = NoWait]
    /\ UNCHANGED <<planner_vars, cluster, watcher_vars, pure_vars>>

MutatorNext ==
    \/ ApplyAssignment
    \/ ClearPlacement
    \/ WaitPoll
    \/ WaitReturn

MutatorSpec == MutatorInit /\ [][MutatorNext]_vars

\* The thread that called the mutator keeps running: a wait in progress
\* takes its next step.
MutatorFairSpec == MutatorSpec /\ WF_vars(WaitPoll) /\ WF_vars(WaitReturn)

\* ------------------------------------------------ claims on the mutator

\* The step is a clear_placement call, up to its wait.
ClearStep == mutator.outcome # "running" /\ mutator'.op = "clear_placement"

\* The step is an apply_assignment call, up to its wait.
ApplyStep == mutator.outcome # "running" /\ mutator'.op = "apply_assignment"

\* The deployment carries the managed annotation in cluster c.
Managed(c, d) == MANAGED_ANNOTATION \in DOMAIN c.annotations[d]

\* The deployment is in the scope of a clear_placement with this filter.
InScope(f, d) == f = None \/ f[1] = {} \/ d \in f[1]

\* C11: clear_placement, with or without a filter, patches no deployment
\* that does not carry the managed annotation: such a deployment is not
\* among those cleared, and its selector (the user's keys included) and its
\* annotations are the same after the call as before.
C11_ClearLeavesUnmanagedAlone ==
    [][ClearStep =>
          \A d \in DeploymentNames :
              ~Managed(cluster, d) =>
                  /\ d \notin SetOf(mutator'.cleared)
                  /\ cluster'.node_selector[d] = cluster.node_selector[d]
                  /\ cluster'.annotations[d] = cluster.annotations[d]]_vars

\* C11 witness: a clear_placement returned having cleared a deployment,
\* while a deployment in its scope without the managed annotation has a
\* non-empty selector.
C11_Witness ==
    /\ mutator.op = "clear_placement"
    /\ mutator.outcome = "return"
    /\ mutator.cleared # <<>>
    /\ \E d \in DeploymentNames :
          /\ InScope(mutator.dep_filter, d)
          /\ d \notin SetOf(mutator.cleared)
          /\ ~Managed(cluster, d)
          /\ DOMAIN cluster.node_selector[d] # {}

\* C12: after a clear_placement that returns normally, every deployment in
\* its scope that carried the managed annotation no longer carries it and
\* its selector no longer holds the placement key; the other keys of the
\* selector are kept, and the selector is gone when no key remains.
C12_ClearRemovesPlacement ==
    [][(ClearStep /\ mutator'.outcome # "raise") =>
          \A d \in DeploymentNames :
              (InScope(mutator'.dep_filter, d) /\ Managed(cluster, d)) =>
                  /\ ~Managed(cluster', d)
                  /\ PLACEMENT_LABEL_KEY \notin DOMAIN cluster'.node_selector[d]
                  /\ cluster'.node_selector[d]
                        = Without(cluster.node_selector[d], PLACEMENT_LABEL_KEY)]_vars

\* The nodes a selector value of the placement key selects: those labelled
\* with that value.
NodesInZone(c, zone) ==
    {n \in ClusterNodes : Get(c.labels[n], PLACEMENT_LABEL_KEY) = Some(zone)}

\* An apply_assignment has returned and no patch call of it had failed.
AppliedCleanly ==
    /\ mutator.op = "apply_assignment"
    /\ mutator.outcome = "return"
    /\ mutator.warnings = {}

\* C13: after an apply_assignment in which no patch failed, every deployment
\* of the assignment has a placement selector that selects exactly its
\* assigned node, two deployments have the same selector value exactly when
\* they are assigned the same node, and get_current_placement reports each
\* as managed with the assignment's strategy.
C13_ApplyPinsAndAnnotates ==
    AppliedCleanly =>
        LET a   == mutator.assignment.assignments
            sel == cluster.node_selector
            got == get_current_placement(cluster)
        IN  /\ \A d \in DOMAIN a :
                  /\ PLACEMENT_LABEL_KEY \in DOMAIN sel[d]
                  /\ NodesInZone(cluster, sel[d][PLACEMENT_LABEL_KEY]) = {a[d]}
                  /\ got[d].managed
                  /\ got[d].strategy = Some(mutator.assignment.strategy)
                  /\ cluster.annotations[d][MANAGED_ANNOTATION]
                        = mutator.assignment.strategy
            /\ \A d, e \in DOMAIN a :
                  (sel[d][PLACEMENT_LABEL_KEY] = sel[e][PLACEMENT_LABEL_KEY])
                      <=> (a[d] = a[e])

\* C13 witness: a spread assignment that puts two deployments on one node
\* and a third on another was applied without a failure, both nodes being
\* labelled.
C13_Witness ==
    /\ AppliedCleanly
    /\ \E d, e, f \in DOMAIN mutator.assignment.assignments :
          /\ d # e
          /\ mutator.assignment.assignments[d] = mutator.assignment.assignments[e]
          /\ mutator.assignment.assignments[d] # mutator.assignment.assignments[f]
    /\ mutator.assignment.strategy = "spread"
    /\ \A n \in ClusterNodes : PLACEMENT_LABEL_KEY \in DOMAIN cluster.labels[n]

\* C14: the convergence wait terminates.  It returns exactly when no
\* deployment is pending any more or the timeout has elapsed, without a
\* further sleep once the last deployment has converged; it never raises;
\* on return the warnings name exactly the deployments still pending; and
\* no step of the wait patches the cluster.
C14_WaitTerminates ==
    /\ (mutator.outcome = "running") ~> (mutator.outcome = "return")
    /\ [][mutator.outcome = "running" =>
            /\ cluster' = cluster
            /\ mutator'.outcome \in {"running", "return"}
            /\ (mutator'.outcome = "return")
                  <=> \/ mutator.wait.pending = {}
                      \/ mutator.wait.elapsed >= mutator.wait.timeout
            /\ (mutator'.outcome = "return")
                  => mutator'.unconverged = mutator.wait.pending
            /\ (mutator'.outcome = "running" /\ mutator'.wait.pending = {})
                  => (mutator'.wait.elapsed - mutator.wait.elapsed) \in PassSeconds
       ]_vars

\* C14 witness: a wait has returned on its timeout after a pass in which
\* some of the deployments waited for converged and others did not.
C14_Witness ==
    /\ mutator.op = "apply_assignment"
    /\ mutator.outcome = "return"
    /\ mutator.unconverged # {}
    /\ mutator.unconverged # DOMAIN mutator.assignment.assignments
    /\ mutator.unconverged \subseteq DeploymentNames

\* The deployments a clear_placement with filter f has to patch in cluster
\* c: in scope, managed, and holding the placement key.
DueForClear(c, f) ==
    {d \in DeploymentNames :
        /\ InScope(f, d)
        /\ Managed(c, d)
        /\ PLACEMENT_LABEL_KEY \in DOMAIN c.node_selector[d]}

\* C15: a patch that fails on one deployment of a batch does not abort the
\* batch, whether an assignment is applied or a placement cleared: the call
\* does not raise, and every other deployment of the batch is patched.
C15_PatchFailureDoesNotAbort ==
    [][(ApplyStep \/ ClearStep) =>
          /\ mutator'.outcome # "raise"
          /\ ApplyStep =>
                \A d \in (DOMAIN mutator'.assignment.assignments)
                            \ mutator'.warnings :
                    /\ Get(cluster'.node_selector[d], PLACEMENT_LABEL_KEY)
                          = Some(Zone(mutator'.assignment.assignments[d]))
                    /\ Get(cluster'.annotations[d], MANAGED_ANNOTATION)
                          = Some(mutator'.assignment.strategy)
          /\ ClearStep =>
                Cardinality(DueForClear(cluster, mutator'.dep_filter)
                                \ SetOf(mutator'.cleared)) <= 1]_vars

\* ============================================== recovery watcher
\* chaosprobe/metrics/recovery.py: RecoveryWatcher follows the pods of a
\* deployment through a watch stream read by a background thread, and
\* records recovery cycles (pod deleted -> a pod ready again).
\*   datetime        microseconds since the start of the run, an integer
\*   isoformat()     not applied: a time is kept as its datetime
\*   `watcher`       the fields of the instance
\*   `workers`       the threads start() has created, oldest first
\*   `caller`        the thread that calls start(), stop() and result()
\*   `stream`        the notifications the API server sends during the run,
\*                   each with the time at which it is sent
\*   `delivered`     how many of them it has sent so far

\* Most threads started in a run.
MaxWorkers == 2

\* A condition of pod.status.conditions.
Condition(type, status, last_transition_time) ==
    [type |-> type, status |-> status,
     last_transition_time |-> last_transition_time]

\* A pod as the API returns it: conditions is None or a list.
Pod(name, phase, conditions) ==
    [name |-> name, phase |-> phase, conditions |-> conditions]

\* _is_pod_ready
_is_pod_ready(pod) ==
    /\ pod.conditions # None
    /\ \E i \in DOMAIN pod.conditions[1] :
          /\ pod.conditions[1][i].type = "Ready"
          /\ pod.conditions[1][i].status = "True"

\* _get_scheduled_time: the transition time of the first PodScheduled
\* condition that has one.
_get_scheduled_time(pod) ==
    IF pod.conditions = None THEN None
    ELSE LET conds == pod.conditions[1]
             hits  == {i \in DOMAIN conds :
                          /\ conds[i].type = "PodScheduled"
                          /\ conds[i].last_transition_time # None}
         IN  IF hits = {} THEN None
             ELSE conds[CHOOSE i \in hits : \A j \in hits : i <= j]
                      .last_transition_time

\* The microsecond counts u, among the differences of the times of a run, for which
\* the float product (u / 10^6) * 1000 is just below the whole number
\* u / 1000: 1.001 * 1000 is 1000.9999999999999.
ShortProducts == {1001000}

\* int((to - from).total_seconds() * 1000): the float product, truncated
\* towards zero.
DurationMs(from, to) ==
    LET us  == to - from
        mag == IF us >= 0 THEN us ELSE 0 - us
        ms  == (mag \div 1000) - (IF mag \in ShortProducts THEN 1 ELSE 0)
    IN  IF us >= 0 THEN ms ELSE 0 - ms

\* A raw cycle: deletionTime, scheduledTime, readyTime, each Optional.
RawCycle(deletion, scheduled, ready) ==
    [deletionTime |-> deletion, scheduledTime |-> scheduled, readyTime |-> ready]

\* _finalize_cycle
_finalize_cycle(cycle) ==
    LET deletion  == cycle.deletionTime
        scheduled == cycle.scheduledTime
        ready     == cycle.readyTime
    IN  [deletionTime  |-> deletion,
         scheduledTime |-> scheduled,
         readyTime     |-> ready,
         deletionToScheduled_ms |->
             IF deletion # None /\ scheduled # None
             THEN Some(DurationMs(deletion[1], scheduled[1])) ELSE None,
         scheduledToReady_ms |->
             IF scheduled # None /\ ready # None
             THEN Some(DurationMs(scheduled[1], ready[1])) ELSE None,
         totalRecovery_ms |->
             IF deletion # None /\ ready # None
             THEN Some(DurationMs(deletion[1], ready[1])) ELSE None]

RECURSIVE SeqSum(_)
SeqSum(s) == IF s = <<>> THEN 0 ELSE Head(s) + SeqSum(Tail(s))

\* The list left as it is.
sorted_Unsorted(s) == s

\* sorted(recovery_times)
sorted(s) == SortSeq(s, LAMBDA a, b : a < b)

\* A float with one decimal, kept as its count of tenths: 300.0 is
\* Decimal(3000), 133.3 is Decimal(1333).
Decimal(tenths) == [tenths |-> tenths]

\* round(num / den, 1) for num >= 0 and den > 0: the nearest tenth.  A tie
\* (a quotient ending in .25 or .75, which a float holds exactly) goes to
\* the even tenth.
RoundTenths(num, den) ==
    LET q == (10 * num) \div den
        r == (10 * num) % den
    IN  Decimal(IF 2 * r < den THEN q
                ELSE IF 2 * r > den THEN q + 1
                ELSE IF q % 2 = 0 THEN q ELSE q + 1)

\* statistics.median: the middle element, or the mean of the two middle ones.
median(times) ==
    LET st == sorted(times)
        k  == Len(st)
    IN  IF k % 2 = 1 THEN RoundTenths(st[(k \div 2) + 1], 1)
        ELSE RoundTenths(st[k \div 2] + st[(k \div 2) + 1], 2)

\* min(int(k * 0.95), k - 1): the float product equals 19k/20 rounded down
\* for every k up to 100000.
P95Index(k) == Min((19 * k) \div 20, k - 1)

\* The list that takes an incomplete cycle for one of 0 ms.
RecoveryTimes_All(cycles) ==
    [i \in DOMAIN cycles |->
        IF cycles[i].totalRecovery_ms = None THEN 0
        ELSE cycles[i].totalRecovery_ms[1]]

\* recovery_times: totalRecovery_ms of the cycles where it is not None.
RecoveryTimes(cycles) ==
    LET completed == SelectSeq(cycles, LAMBDA c : c.totalRecovery_ms # None)
    IN  [i \in DOMAIN completed |-> completed[i].totalRecovery_ms[1]]

\* _compute_summary
_compute_summary(cycles) ==
    LET recovery_times == RecoveryTimes(cycles)
        sorted_times == sorted(recovery_times)
        k == Len(recovery_times)
    IN  IF k = 0
        THEN [count |-> Len(cycles), completedCycles |-> 0,
              meanRecovery_ms |-> None, medianRecovery_ms |-> None,
              minRecovery_ms |-> None, maxRecovery_ms |-> None,
              p95Recovery_ms |-> None]
        ELSE [count |-> Len(cycles), completedCycles |-> k,
              meanRecovery_ms |-> Some(RoundTenths(SeqSum(recovery_times), k)),
              medianRecovery_ms |-> Some(median(recovery_times)),
              minRecovery_ms |-> Some(sorted_times[1]),
              maxRecovery_ms |-> Some(sorted_times[k]),
              p95Recovery_ms |-> Some(sorted_times[P95Index(k) + 1])]

\* A notification of the watch stream: event["type"], event["object"].
WatchEvent(type, pod) == [type |-> type, object |-> pod]

\* What an ERROR notification carries in place of a pod: the API's status
\* message, which has no metadata.
Status == [kind |-> "Status"]

IsPod(object) == "name" \in DOMAIN object

\* Pods as notifications show them.
PendingPod(name) == Pod(name, "Pending", None)

NotReadyPod(name) ==
    Pod(name, "Running", Some(<<Condition("PodScheduled", "True", None),
                                Condition("Ready", "False", None)>>))

ReadyPod(name, scheduled) ==
    Pod(name, "Running", Some(<<Condition("PodScheduled", "True", scheduled),
                                Condition("Ready", "True", None)>>))

\* The notification the server sends at `time`.
Notification(time, type, pod) == [time |-> time, event |-> WatchEvent(type, pod)]

\* The runs of notifications.  Notification times are read from the clock
\* and have microseconds; condition times come from the API in whole seconds.
\*   a pod deleted, another ready five seconds later and scheduled two
\*     seconds after the deletion;
\*   a pod deleted, another ready later and scheduled 1.001 s after the
\*     deletion;
\*   two pods deleted one after the other;
\*   a pod deleted, then reported ready by ADDED without a PodScheduled time;
\*   a pod deleted, its replacement reported pending;
\*   a pod deleted, then an ERROR notification.
Streams ==
    {<<Notification(0, "DELETED", ReadyPod("p1", Some(0))),
       Notification(5000400, "MODIFIED", ReadyPod("p2", Some(2000000)))>>,
     <<Notification(999000, "DELETED", ReadyPod("p1", Some(0))),
       Notification(5000400, "MODIFIED", ReadyPod("p2", Some(2000000)))>>,
     <<Notification(1001000, "DELETED", ReadyPod("p1", Some(0))),
       Notification(2000000, "DELETED", ReadyPod("p2", Some(0)))>>,
     <<Notification(1001000, "DELETED", ReadyPod("p1", Some(0))),
       Notification(5000400, "ADDED", ReadyPod("p1", None))>>,
     <<Notification(0, "DELETED", ReadyPod("p1", Some(0))),
       Notification(2000000, "ADDED", PendingPod("p2"))>>,
     <<Notification(0, "DELETED", ReadyPod("p1", Some(0))),
       Notification(2000000, "ERROR", Status)>>}

\* Further runs, for a watcher started once:
\*   two pods deleted one after the other, then a replacement ready that was
\*     scheduled at the time of the second deletion;
\*   a pod deleted and, at the same time, another pod reported ready that was
\*     scheduled before the deletion;
\*   a pod not ready then ready, with no deletion;
\*   a pod deleted and reported ready again a second later.
FurtherStreams ==
    {<<Notification(1001000, "DELETED", ReadyPod("p1", Some(0))),
       Notification(2000000, "DELETED", ReadyPod("p2", Some(0))),
       Notification(5000400, "ADDED", ReadyPod("p3", Some(2000000)))>>,
     <<Notification(2000000, "DELETED", ReadyPod("p1", Some(0))),
       Notification(2000000, "MODIFIED", ReadyPod("p2", Some(1000000)))>>,
     <<Notification(0, "MODIFIED", NotReadyPod("p1")),
       Notification(1001000, "MODIFIED", ReadyPod("p1", Some(0)))>>,
     <<Notification(0, "DELETED", ReadyPod("p1", Some(0))),
       Notification(1001000, "ADDED", ReadyPod("p1", Some(0)))>>}

\* What list_namespaced_pod gives _snapshot_pods: None when it raises,
\* otherwise the pods listed.
SnapshotResults ==
    {None, Some({PendingPod("p1"), ReadyPod("p2", Some(0))})}

\* _snapshot_pods: _pod_ready is set for every pod listed; an exception is
\* swallowed.
RECURSIVE SnapshotLoop(_, _)
SnapshotLoop(pod_ready, pods) ==
    IF pods = {} THEN pod_ready
    ELSE LET pod == CHOOSE pod \in pods : TRUE
         IN  SnapshotLoop(Put(pod_ready, pod.name, _is_pod_ready(pod)),
                          pods \ {pod})

_snapshot_pods(w, listed) ==
    IF listed = None THEN w
    ELSE [w EXCEPT !.pod_ready = SnapshotLoop(@, listed[1])]

\* A watch loop in which a pod that becomes ready while no cycle is open
\* gets a cycle of its own.
HandleEvent_CycleWithoutDeletion(w, event, now) ==
    LET pod    == event.object
        logged == Append(w.events,
                         [time |-> now, type |-> event.type,
                          pod |-> pod.name, phase |-> pod.phase])
        closes == /\ pod.phase = "Running" /\ _is_pod_ready(pod)
                  /\ ~(pod.name \in DOMAIN w.pod_ready /\ w.pod_ready[pod.name])
    IN  IF event.type = "DELETED"
        THEN [w EXCEPT !.events = logged,
                       !.pod_ready = Without(@, pod.name),
                       !.pending_deletion = IF @ = None THEN Some(now) ELSE @]
        ELSE IF event.type \in {"ADDED", "MODIFIED"}
        THEN [w EXCEPT
                !.events = logged,
                !.pod_ready = Put(@, pod.name,
                                  pod.phase = "Running" /\ _is_pod_ready(pod)),
                !.cycles =
                    IF closes
                    THEN Append(@, _finalize_cycle(
                             RawCycle(IF w.pending_deletion = None
                                      THEN Some(now) ELSE w.pending_deletion,
                                      _get_scheduled_time(pod), Some(now))))
                    ELSE @,
                !.pending_deletion = IF closes THEN None ELSE @]
        ELSE [w EXCEPT !.events = logged]

\* A watch loop in which every notification of a ready pod closes the open
\* cycle, whatever the pod's recorded state.
HandleEvent_AnyReady(w, event, now) ==
    LET pod    == event.object
        logged == Append(w.events,
                         [time |-> now, type |-> event.type,
                          pod |-> pod.name, phase |-> pod.phase])
        closes == /\ pod.phase = "Running" /\ _is_pod_ready(pod)
                  /\ w.pending_deletion # None
    IN  IF event.type = "DELETED"
        THEN [w EXCEPT !.events = logged,
                       !.pod_ready = Without(@, pod.name),
                       !.pending_deletion = IF @ = None THEN Some(now) ELSE @]
        ELSE IF event.type \in {"ADDED", "MODIFIED"}
        THEN [w EXCEPT
                !.events = logged,
                !.pod_ready = Put(@, pod.name,
                                  pod.phase = "Running" /\ _is_pod_ready(pod)),
                !.cycles =
                    IF closes
                    THEN Append(@, _finalize_cycle(
                             RawCycle(w.pending_deletion,
                                      _get_scheduled_time(pod), Some(now))))
                    ELSE @,
                !.pending_deletion = IF closes THEN None ELSE @]
        ELSE [w EXCEPT !.events = logged]

\* A watch loop in which every DELETED notification restarts the open cycle.
HandleEvent_Restarts(w, event, now) ==
    LET pod    == event.object
        logged == Append(w.events,
                         [time |-> now, type |-> event.type,
                          pod |-> pod.name, phase |-> pod.phase])
        closes == /\ pod.phase = "Running" /\ _is_pod_ready(pod)
                  /\ ~(pod.name \in DOMAIN w.pod_ready /\ w.pod_ready[pod.name])
                  /\ w.pending_deletion # None
    IN  IF event.type = "DELETED"
        THEN [w EXCEPT !.events = logged,
                       !.pod_ready = Without(@, pod.name),
                       !.pending_deletion = Some(now)]
        ELSE IF event.type \in {"ADDED", "MODIFIED"}
        THEN [w EXCEPT
                !.events = logged,
                !.pod_ready = Put(@, pod.name,
                                  pod.phase = "Running" /\ _is_pod_ready(pod)),
                !.cycles =
                    IF closes
                    THEN Append(@, _finalize_cycle(
                             RawCycle(w.pending_deletion,
                                      _get_scheduled_time(pod), Some(now))))
                    ELSE @,
                !.pending_deletion = IF closes THEN None ELSE @]
        ELSE [w EXCEPT !.events = logged]

\* The body of the watch loop under the lock, for one notification.
HandleEvent(w, event, now) ==
    LET pod      == event.object
        pod_name == pod.name
        logged   == Append(w.events,
                           [time |-> now, type |-> event.type,
                            pod |-> pod_name, phase |-> pod.phase])
    IN  IF event.type = "DELETED"
        THEN [w EXCEPT !.events = logged,
                       !.pod_ready = Without(@, pod_name),
                       !.pending_deletion = IF @ = None THEN Some(now) ELSE @]
        ELSE IF event.type \in {"ADDED", "MODIFIED"}
        THEN LET was_ready == IF pod_name \in DOMAIN w.pod_ready
                              THEN w.pod_ready[pod_name] ELSE FALSE
                 is_ready  == pod.phase = "Running" /\ _is_pod_ready(pod)
                 closes    == /\ is_ready
                              /\ ~was_ready
                              /\ w.pending_deletion # None
             IN  [w EXCEPT
                    !.events = logged,
                    !.pod_ready = Put(@, pod_name, is_ready),
                    !.cycles =
                        IF closes
                        THEN Append(@, _finalize_cycle(
                                 RawCycle(w.pending_deletion,
                                          _get_scheduled_time(pod), Some(now))))
                        ELSE @,
                    !.pending_deletion = IF closes THEN None ELSE @]
        ELSE [w EXCEPT !.events = logged]

\* ------------------------------------------------ watcher state machine

\* Thread.join(timeout=5), in microseconds.
JoinTimeout == 5 * 1000000

\* RecoveryWatcher.__init__
NewWatcher ==
    [stop_event       |-> FALSE,
     thread           |-> None,
     pod_ready        |-> EmptyDict,
     pending_deletion |-> None,
     cycles           |-> <<>>,
     events           |-> <<>>]

\* A thread running _watch_loop.  pc is where it stands: "stream" blocked in
\* the stream waiting for a notification, "handle" past the test of the
\* stop flag with a notification and its `now` in hand, "done" returned.
\* cursor counts the notifications of the run that its stream has yielded
\* or that were sent before the stream was opened.
NewWorker(cursor) ==
    [pc |-> "stream", cursor |-> cursor,
     event |-> WatchEvent("none", PendingPod("none")), now |-> 0]

\* The run ends here: no join times out later than this.
Horizon == 2 * JoinTimeout

\* The calling thread.  pc is "idle" outside any call, "joining" inside
\* stop() at Thread.join, "finalize" inside stop() before its lock block.
\* open_at_stop remembers the open-cycle marker as it was when stop() was
\* last called; stopped says that a stop() has returned; result is what
\* the last result() returned.
NewCaller ==
    [pc |-> "idle", join_start |-> 0, open_at_stop |-> None,
     stopped |-> FALSE, result |-> None]

WatcherInit ==
    /\ deployments = <<>>
    /\ nodes = <<>>
    /\ last = NoCall
    /\ repeated = FALSE
    /\ cluster = None
    /\ mutator = None
    /\ clock = 0
    /\ watcher = NewWatcher
    /\ workers = <<>>
    /\ caller = NewCaller
    /\ stream \in Streams
    /\ delivered = 0
    /\ summarized = None
    /\ serialized = None
    /\ polled = None

\* Thread.is_alive()
is_alive(worker) == worker.pc # "done"

\* start(): the snapshot, then a new thread, which self._thread then names.
Start ==
    /\ caller.pc = "idle"
    /\ Len(workers) < MaxWorkers
    /\ \E listed \in SnapshotResults :
          watcher' = [_snapshot_pods(watcher, listed)
                        EXCEPT !.thread = Some(Len(workers) + 1)]
    /\ workers' = Append(workers, NewWorker(delivered))
    /\ UNCHANGED <<planner_vars, mutator_vars, pure_vars, clock, caller, stream, delivered>>

\* stop(), first part: the flag is set, and the thread is joined if there
\* is one and it is alive.
StopCall ==
    /\ caller.pc = "idle"
    /\ watcher' = [watcher EXCEPT !.stop_event = TRUE]
    /\ caller' =
         [caller EXCEPT
            !.pc = IF watcher.thread # None /\ is_alive(workers[watcher.thread[1]])
                   THEN "joining" ELSE "finalize",
            !.join_start = clock,
            !.open_at_stop = watcher.pending_deletion]
    /\ UNCHANGED <<planner_vars, mutator_vars, pure_vars, clock, workers, stream, delivered>>

\* join returns because the thread has ended.
JoinReturns ==
    /\ caller.pc = "joining"
    /\ ~is_alive(workers[watcher.thread[1]])
    /\ caller' = [caller EXCEPT !.pc = "finalize"]
    /\ UNCHANGED <<planner_vars, mutator_vars, pure_vars, clock, watcher, workers, stream, delivered>>

\* join returns because five seconds have passed with the thread alive.
JoinTimesOut ==
    /\ caller.pc = "joining"
    /\ is_alive(workers[watcher.thread[1]])
    /\ caller.join_start + JoinTimeout <= Horizon
    /\ clock' = Max(clock, caller.join_start + JoinTimeout)
    /\ caller' = [caller EXCEPT !.pc = "finalize"]
    /\ UNCHANGED <<planner_vars, mutator_vars, pure_vars, watcher, workers, stream, delivered>>

\* stop() that drops an open cycle instead of recording it.
StopFinalize_Discards ==
    /\ caller.pc = "finalize"
    /\ watcher' = [watcher EXCEPT !.pending_deletion = None]
    /\ caller' = [caller EXCEPT !.pc = "idle", !.stopped = TRUE,
                                !.join_start = 0, !.open_at_stop = None]
    /\ UNCHANGED <<planner_vars, mutator_vars, pure_vars, clock, workers, stream, delivered>>

\* stop(), last part, under the lock: an open cycle is finalized without
\* scheduled and ready times.  Then stop() returns.
StopFinalize ==
    /\ caller.pc = "finalize"
    /\ watcher' =
         IF watcher.pending_deletion # None
         THEN [watcher EXCEPT
                 !.cycles = Append(@, _finalize_cycle(
                                RawCycle(watcher.pending_deletion, None, None))),
                 !.pending_deletion = None]
         ELSE watcher
    /\ caller' = [caller EXCEPT !.pc = "idle", !.stopped = TRUE,
                                !.join_start = 0, !.open_at_stop = None]
    /\ UNCHANGED <<planner_vars, mutator_vars, pure_vars, clock, workers, stream, delivered>>

\* result(): the lists are copied under the lock, the summary is computed.
Result ==
    /\ caller.pc = "idle"
    /\ caller' = [caller EXCEPT
                    !.result = Some([recoveryEvents |-> watcher.cycles,
                                     summary |-> _compute_summary(watcher.cycles),
                                     rawEvents |-> watcher.events])]
    /\ UNCHANGED <<planner_vars, mutator_vars, pure_vars, clock, watcher, workers, stream, delivered>>

\* The stream of thread i yields its next notification, at the time the
\* server sends it or later; the thread tests the stop flag: set, it breaks
\* out of the loop and returns through `finally`; clear, it reads the
\* notification and the time.
WorkerReceive(i) ==
    /\ workers[i].pc = "stream"
    /\ workers[i].cursor < Len(stream)
    /\ LET k   == workers[i].cursor + 1
           now == Max(clock, stream[k].time)
       IN  /\ clock' = now
           /\ delivered' = Max(delivered, k)
           /\ workers' = [workers EXCEPT ![i] =
                            IF watcher.stop_event
                            THEN [@ EXCEPT !.pc = "done", !.cursor = k]
                            ELSE [pc |-> "handle", cursor |-> k,
                                  event |-> stream[k].event, now |-> now]]
    /\ UNCHANGED <<planner_vars, mutator_vars, pure_vars, watcher, caller, stream>>

\* Thread i takes the lock and handles its notification, then goes back to
\* the stream.
WorkerHandle(i) ==
    /\ workers[i].pc = "handle"
    /\ IsPod(workers[i].event.object)
    /\ watcher' = HandleEvent(watcher, workers[i].event, workers[i].now)
    /\ workers' = [workers EXCEPT ![i] = NewWorker(workers[i].cursor)]
    /\ UNCHANGED <<planner_vars, mutator_vars, pure_vars, clock, caller, stream, delivered>>

\* A thread whose error takes the open cycle with it.
WorkerHandleRaises_DropsCycle(i) ==
    /\ workers[i].pc = "handle"
    /\ ~IsPod(workers[i].event.object)
    /\ watcher' = [watcher EXCEPT !.pending_deletion = None]
    /\ workers' = [workers EXCEPT ![i] = [@ EXCEPT !.pc = "done"]]
    /\ UNCHANGED <<planner_vars, mutator_vars, pure_vars, clock, caller, stream, delivered>>

\* The notification of thread i carries no pod: reading the pod's name
\* raises before the lock is taken, the exception is swallowed and the
\* thread returns.
WorkerHandleRaises(i) ==
    /\ workers[i].pc = "handle"
    /\ ~IsPod(workers[i].event.object)
    /\ workers' = [workers EXCEPT ![i] = [@ EXCEPT !.pc = "done"]]
    /\ UNCHANGED <<planner_vars, mutator_vars, pure_vars, clock, watcher, caller, stream, delivered>>

\* The stream of thread i ends or raises (the server closes the
\* connection): the exception is swallowed and the thread returns.
WorkerStreamEnds(i) ==
    /\ workers[i].pc = "stream"
    /\ workers' = [workers EXCEPT ![i] = [@ EXCEPT !.pc = "done"]]
    /\ UNCHANGED <<planner_vars, mutator_vars, pure_vars, clock, watcher, caller, stream, delivered>>

WatcherNext ==
    \/ Start
    \/ StopCall
    \/ JoinReturns
    \/ JoinTimesOut
    \/ StopFinalize
    \/ Result
    \/ \E i \in DOMAIN workers : WorkerReceive(i)
    \/ \E i \in DOMAIN workers : WorkerHandle(i)
    \/ \E i \in DOMAIN workers : WorkerHandleRaises(i)
    \/ \E i \in DOMAIN workers : WorkerStreamEnds(i)

WatcherSpec == WatcherInit /\ [][WatcherNext]_vars

\* The use the class documents: start() is called once on a watcher.  The
\* runs of notifications include the longer ones.
SingleStartInit ==
    /\ deployments = <<>>
    /\ nodes = <<>>
    /\ last = NoCall
    /\ repeated = FALSE
    /\ cluster = None
    /\ mutator = None
    /\ clock = 0
    /\ watcher = NewWatcher
    /\ workers = <<>>
    /\ caller = NewCaller
    /\ stream \in Streams \cup FurtherStreams
    /\ delivered = 0
    /\ summarized = None
    /\ serialized = None
    /\ polled = None

StartOnce == workers = <<>> /\ Start

SingleStartNext ==
    \/ StartOnce
    \/ StopCall
    \/ JoinReturns
    \/ JoinTimesOut
    \/ StopFinalize
    \/ Result
    \/ \E i \in DOMAIN workers : WorkerReceive(i)
    \/ \E i \in DOMAIN workers : WorkerHandle(i)
    \/ \E i \in DOMAIN workers : WorkerHandleRaises(i)
    \/ \E i \in DOMAIN workers : WorkerStreamEnds(i)

SingleStartSpec == SingleStartInit /\ [][SingleStartNext]_vars

\* ------------------------------------------------ summary statistics

\* Longest cycle list summarized.
MaxCycles == 5

\* Total recovery durations of the cycles summarized, in ms.
Durations == {1, 2, 300}

\* A cycle with the total recovery duration `total` (Optional): deleted at
\* 0 and, if complete, ready `total` ms later.
CycleOf(total) ==
    _finalize_cycle(RawCycle(Some(0), None,
                             IF total = None THEN None
                             ELSE Some(total[1] * 1000)))

\* The durations 100 .. 500 ms, in order and out of order.
ExampleLists ==
    {<<CycleOf(Some(100)), CycleOf(Some(200)), CycleOf(Some(300)),
       CycleOf(Some(400)), CycleOf(Some(500))>>,
     <<CycleOf(Some(500)), CycleOf(Some(100)), CycleOf(Some(400)),
       CycleOf(Some(200)), CycleOf(Some(300))>>}

\* The cycle lists summarized.
CycleLists ==
    ExampleLists \cup
    UNION {[1..n -> {CycleOf(t) : t \in {None} \cup {Some(d) : d \in Durations}}]
              : n \in 0..MaxCycles}

SummaryInit ==
    /\ deployments = <<>>
    /\ nodes = <<>>
    /\ last = NoCall
    /\ repeated = FALSE
    /\ cluster = None
    /\ mutator = None
    /\ clock = 0
    /\ watcher = None
    /\ workers = <<>>
    /\ caller = None
    /\ stream = <<>>
    /\ delivered = 0
    /\ \E cycles \in CycleLists :
          summarized = Some([cycles |-> cycles, summary |-> None])
    /\ serialized = None
    /\ polled = None

\* _compute_summary(cycles)
ComputeSummary ==
    /\ summarized # None
    /\ summarized[1].summary = None
    /\ summarized' =
          Some([summarized[1] EXCEPT
                  !.summary = Some(_compute_summary(summarized[1].cycles))])
    /\ UNCHANGED <<planner_vars, mutator_vars, watcher_vars, serialized, polled>>

SummaryNext == ComputeSummary

SummarySpec == SummaryInit /\ [][SummaryNext]_vars

\* ------------------------------------------------ serialization

\* Longest node list and deployment list of a planning session whose
\* result is serialized.
MaxPlanned == 2

\* A member of the enum PlacementStrategy, an object distinct from its
\* value.
Member(tag) == <<"PlacementStrategy", tag>>

\* member.value
value(member) == member[2]

\* PlacementStrategy(tag): the member with that value; ValueError if none.
PlacementStrategyOf(tag) ==
    IF tag \in PlacementStrategy THEN Member(tag) ELSE Raise("not a valid PlacementStrategy")

\* The NodeAssignment object a planner call returned: the planner's record,
\* its strategy field the enum member.
AsObject(assignment) == [assignment EXCEPT !.strategy = Member(@)]

\* data.get(key, default)
DictGet(data, key, default) == IF key \in DOMAIN data THEN data[key] ELSE default

\* NodeAssignment.to_dict
to_dict(self) ==
    [strategy    |-> value(self.strategy),
     seed        |-> self.seed,
     assignments |-> self.assignments,
     metadata    |-> self.metadata]

\* from_dict that leaves the seed out.
from_dict_NoSeed(data) ==
    [strategy    |-> PlacementStrategyOf(data.strategy),
     assignments |-> DictGet(data, "assignments", EmptyDict),
     seed        |-> None,
     metadata    |-> DictGet(data, "metadata", EmptyDict)]

\* NodeAssignment.from_dict
from_dict(data) ==
    [strategy    |-> PlacementStrategyOf(data.strategy),
     assignments |-> DictGet(data, "assignments", EmptyDict),
     seed        |-> DictGet(data, "seed", None),
     metadata    |-> DictGet(data, "metadata", EmptyDict)]

\* Nothing serialized yet.
NotSerialized == [original |-> None, data |-> None, restored |-> None]

SerializeInit ==
    /\ deployments \in {d \in DeploymentLists : Len(d) <= MaxPlanned}
    /\ nodes \in {n \in NodeLists : Len(n) <= MaxPlanned}
    /\ last = NoCall
    /\ repeated = FALSE
    /\ cluster = None
    /\ mutator = None
    /\ clock = 0
    /\ watcher = None
    /\ workers = <<>>
    /\ caller = None
    /\ stream = <<>>
    /\ delivered = 0
    /\ summarized = None
    /\ serialized = NotSerialized
    /\ polled = None

\* The one compute_assignments call of the session.
Plan ==
    /\ last = NoCall
    /\ PlannerNext

\* data = original.to_dict(), original being what the call returned.
ToDict ==
    /\ last # NoCall
    /\ last.outcome.kind = "return"
    /\ serialized.data = None
    /\ serialized' = [serialized EXCEPT
                        !.original = Some(AsObject(last.outcome.value)),
                        !.data = Some(to_dict(AsObject(last.outcome.value)))]
    /\ UNCHANGED <<planner_vars, mutator_vars, watcher_vars, summarized, polled>>

\* restored = NodeAssignment.from_dict(data)
FromDict ==
    /\ serialized.data # None
    /\ serialized.restored = None
    /\ serialized' = [serialized EXCEPT !.restored = Some(from_dict(serialized.data[1]))]
    /\ UNCHANGED <<planner_vars, mutator_vars, watcher_vars, summarized, polled>>

SerializeNext ==
    \/ Plan
    \/ ToDict
    \/ FromDict

SerializeSpec == SerializeInit /\ [][SerializeNext]_vars

\* ------------------------------------------------ one pass of the wait

\* Largest replica count and largest generation of a deployment read.
MaxReplicas == 2

MaxGeneration == 2

\* An Optional count up to n.
OptionalUpTo(n) == {None} \cup {Some(k) : k \in 0..n}

\* The deployments read_namespaced_deployment can return.
StatusGrid ==
    {RolloutStatus(replicas, generation, observed, ready, updated, available) :
        replicas \in OptionalUpTo(MaxReplicas),
        generation \in {None} \cup {Some(g) : g \in 1..MaxGeneration},
        observed \in OptionalUpTo(MaxGeneration),
        ready \in OptionalUpTo(MaxReplicas),
        updated \in OptionalUpTo(MaxReplicas),
        available \in OptionalUpTo(MaxReplicas)}

\* What the reads of one pass can do: one pending deployment with every
\* status or an ApiException, or two pending deployments with the statuses
\* of the catalog.
PassReads ==
    {"web" :> r : r \in ReadResults \cup
                         {[raises |-> FALSE, dep |-> d] : d \in StatusGrid}}
        \cup [{"db", "web"} -> ReadResults]

RolloutInit ==
    /\ deployments = <<>>
    /\ nodes = <<>>
    /\ last = NoCall
    /\ repeated = FALSE
    /\ cluster = None
    /\ mutator = None
    /\ clock = 0
    /\ watcher = None
    /\ workers = <<>>
    /\ caller = None
    /\ stream = <<>>
    /\ delivered = 0
    /\ summarized = None
    /\ serialized = None
    /\ \E reads \in PassReads :
          polled = Some([pending |-> DOMAIN reads, reads |-> reads,
                         still_pending |-> None])

\* One pass of the loop of _wait_for_rollouts over `pending`.
PollPass ==
    /\ polled # None
    /\ polled[1].still_pending = None
    /\ polled' = Some([polled[1] EXCEPT
                         !.still_pending =
                            Some(StillPending(polled[1].pending, polled[1].reads))])
    /\ UNCHANGED <<planner_vars, mutator_vars, watcher_vars, summarized, serialized>>

RolloutNext == PollPass

RolloutSpec == RolloutInit /\ [][RolloutNext]_vars

\* ------------------------------------------------ watcher claims

\* A count of microseconds in whole milliseconds, exactly.
ExactMs(us) == IF us >= 0 THEN us \div 1000 ELSE 0 - ((0 - us) \div 1000)

\* The notification is a not-ready to ready transition of its pod.
ReadyTransition(w, event) ==
    /\ event.type \in {"ADDED", "MODIFIED"}
    /\ event.object.phase = "Running"
    /\ _is_pod_ready(event.object)
    /\ ~(event.object.name \in DOMAIN w.pod_ready /\ w.pod_ready[event.object.name])

\* Thread i handles its notification in this step.
HandleStep(i) ==
    /\ i \in DOMAIN workers
    /\ workers[i].pc = "handle"
    /\ workers'[i].pc = "stream"

\* What the claim says the cycle of a deletion at t0, a scheduled time t1
\* (Optional) and a ready time t2 is.
ExactCycle(t0, t1, t2) ==
    [deletionTime  |-> Some(t0),
     scheduledTime |-> t1,
     readyTime     |-> Some(t2),
     deletionToScheduled_ms |-> IF t1 = None THEN None ELSE Some(ExactMs(t1[1] - t0)),
     scheduledToReady_ms    |-> IF t1 = None THEN None ELSE Some(ExactMs(t2 - t1[1])),
     totalRecovery_ms       |-> Some(ExactMs(t2 - t0))]

\* C16: when a cycle is open since t0 and a thread handles, at t2, a
\* not-ready to ready transition of a pod whose scheduled time is t1, the
\* cycle list gains exactly one cycle, complete, whose three durations are
\* t1 - t0, t2 - t1 and t2 - t0 in whole milliseconds, each null exactly
\* when an endpoint is absent.
C16_CycleDurations ==
    [][\A i \in DOMAIN workers :
          (/\ HandleStep(i)
           /\ watcher.pending_deletion # None
           /\ ReadyTransition(watcher, workers[i].event))
          => watcher'.cycles =
                Append(watcher.cycles,
                       ExactCycle(watcher.pending_deletion[1],
                                  _get_scheduled_time(workers[i].event.object),
                                  workers[i].now))]_vars

\* A pod was deleted at t0, its replacement scheduled at t0 + 2 s and ready
\* at t0 + 5 s: the one cycle has 2000, 3000 and 5000 ms.
C16_Witness ==
    /\ Len(watcher.cycles) = 1
    /\ watcher.cycles[1].deletionToScheduled_ms = Some(2000)
    /\ watcher.cycles[1].scheduledToReady_ms = Some(3000)
    /\ watcher.cycles[1].totalRecovery_ms = Some(5000)
    /\ watcher.pending_deletion = None

\* stop() returns in this step.
StopReturns == caller.pc = "finalize" /\ caller'.pc = "idle"

\* The incomplete cycle of a deletion at t.
IncompleteCycle(t) ==
    [deletionTime  |-> Some(t),
     scheduledTime |-> None,
     readyTime     |-> None,
     deletionToScheduled_ms |-> None,
     scheduledToReady_ms    |-> None,
     totalRecovery_ms       |-> None]

\* stop() returns having recorded the cycle open since t as one incomplete
\* cycle, counted in count and not in completedCycles, and no cycle is open.
FinalizedAsIncomplete(t) ==
    /\ watcher'.cycles = Append(watcher.cycles, IncompleteCycle(t))
    /\ watcher'.pending_deletion = None
    /\ _compute_summary(watcher'.cycles).count =
           _compute_summary(watcher.cycles).count + 1
    /\ _compute_summary(watcher'.cycles).completedCycles =
           _compute_summary(watcher.cycles).completedCycles

\* C17 as stated: if a cycle is open when stop() is called, then when
\* stop() returns the cycle list has gained exactly one incomplete cycle for
\* it, counted in count but not in completedCycles, and no cycle is open.
C17_Original ==
    [][(StopReturns /\ caller.open_at_stop # None)
          => FinalizedAsIncomplete(caller.open_at_stop[1])]_vars

\* C17: if a cycle is still open when stop() has finished waiting for the
\* thread and takes the lock, then when stop() returns the cycle list has
\* gained exactly one incomplete cycle for it, counted in count but not in
\* completedCycles, and no cycle is open; otherwise stop() leaves the cycle
\* list as it is.
C17_StopFinalizesOpenCycle ==
    [][StopReturns
          => IF watcher.pending_deletion # None
             THEN FinalizedAsIncomplete(watcher.pending_deletion[1])
             ELSE watcher'.cycles = watcher.cycles
                  /\ watcher'.pending_deletion = None]_vars

\* stop() has returned, and the last cycle is the incomplete one it recorded
\* for a cycle that was open.
C17_Witness ==
    /\ caller.stopped
    /\ caller.pc = "idle"
    /\ watcher.pending_deletion = None
    /\ Len(watcher.cycles) >= 1
    /\ watcher.cycles[Len(watcher.cycles)].deletionTime # None
    /\ watcher.cycles[Len(watcher.cycles)].readyTime = None
    /\ _compute_summary(watcher.cycles).completedCycles < Len(watcher.cycles)

\* Thread i can take a step of its own: its stream has a notification for
\* it, or it holds one.  (The end of a stream is the server's doing.)
CanProceed(i) ==
    ENABLED (WorkerReceive(i) \/ WorkerHandle(i) \/ WorkerHandleRaises(i))

\* C18: with start() called once, once stop() has been called the thread,
\* if alive, is never left blocked in a stream that delivers nothing: stop()
\* has ended the stream, so the thread can go on to its end.
C18_StopEndsStream ==
    (Len(workers) = 1 /\ watcher.stop_event /\ is_alive(workers[1]))
        => CanProceed(1)

\* The threads of the watcher that are alive.
AliveWorkers == {i \in DOMAIN workers : is_alive(workers[i])}

\* C19: at most one thread of the watcher is alive at any time.
C19_AtMostOneWorker == Cardinality(AliveWorkers) <= 1

\* stop() has returned and the caller stays outside any call in this step.
AfterStop == caller.stopped /\ caller.pc = "idle" /\ caller'.pc = "idle"

\* C20: with start() called once, once stop() has returned no step changes
\* the cycle list, the open-cycle marker or the event log (result() returns
\* the cycle list, its summary and the event log, so every result() then
\* returns the same value).
C20_QuietAfterStop ==
    [][(Len(workers) = 1 /\ AfterStop)
          => /\ watcher'.cycles = watcher.cycles
             /\ watcher'.pending_deletion = watcher.pending_deletion
             /\ watcher'.events = watcher.events]_vars

\* ------------------------------------------------ summary claims

\* A summary has been computed; the list it was computed from, and it.
Summarized == summarized # None /\ summarized[1].summary # None

SummarizedCycles == summarized[1].cycles

Summary == summarized[1].summary[1]

\* The positions of the completed cycles of a list.
CompletedAt(cycles) == {i \in DOMAIN cycles : cycles[i].totalRecovery_ms # None}

\* All five statistics are null.
NoStatistics(s) ==
    /\ s.meanRecovery_ms = None
    /\ s.medianRecovery_ms = None
    /\ s.minRecovery_ms = None
    /\ s.maxRecovery_ms = None
    /\ s.p95Recovery_ms = None

\* C21: the summary's count is the number of cycles and completedCycles the
\* number of cycles with a total recovery duration; with no completed cycle
\* completedCycles is 0 and the five statistics are null.
C21_CountsAndNullStatistics ==
    Summarized =>
        /\ Summary.count = Len(SummarizedCycles)
        /\ Summary.completedCycles = Cardinality(CompletedAt(SummarizedCycles))
        /\ CompletedAt(SummarizedCycles) = {}
              => (Summary.completedCycles = 0 /\ NoStatistics(Summary))

\* A list of incomplete cycles only has been summarized.
C21_Witness ==
    /\ Summarized
    /\ Len(SummarizedCycles) >= 2
    /\ CompletedAt(SummarizedCycles) = {}
    /\ Summary.count = Len(SummarizedCycles)
    /\ NoStatistics(Summary)

\* The total recovery duration of the completed cycle at position i.
TimeAt(cycles, i) == cycles[i].totalRecovery_ms[1]

\* The sum of the durations of the completed cycles at the positions `at`.
RECURSIVE SumAt(_, _)
SumAt(cycles, at) ==
    IF at = {} THEN 0
    ELSE LET i == CHOOSE i \in at : TRUE
         IN  TimeAt(cycles, i) + SumAt(cycles, at \ {i})

\* x is the r-th smallest (r = 1 for the smallest) of the completed
\* durations of the list.
IsRank(cycles, x, r) ==
    /\ Cardinality({i \in CompletedAt(cycles) : TimeAt(cycles, i) < x}) < r
    /\ r <= Cardinality({i \in CompletedAt(cycles) : TimeAt(cycles, i) <= x})

\* m (a Decimal) is the median of the completed durations of the list.
IsMedian(cycles, m) ==
    LET k == Cardinality(CompletedAt(cycles))
    IN  IF k % 2 = 1
        THEN \E i \in CompletedAt(cycles) :
                /\ IsRank(cycles, TimeAt(cycles, i), (k + 1) \div 2)
                /\ m.tenths = 10 * TimeAt(cycles, i)
        ELSE \E i, j \in CompletedAt(cycles) :
                /\ IsRank(cycles, TimeAt(cycles, i), k \div 2)
                /\ IsRank(cycles, TimeAt(cycles, j), (k \div 2) + 1)
                /\ m.tenths = 5 * (TimeAt(cycles, i) + TimeAt(cycles, j))

\* min, max, median and p95 of the summary are those of the completed
\* durations, p95 being the one at index min(floor(k * 0.95), k - 1) of the
\* durations in ascending order.
OrderStatistics(cycles, s) ==
    LET k == Cardinality(CompletedAt(cycles))
    IN  /\ s.minRecovery_ms # None /\ IsRank(cycles, s.minRecovery_ms[1], 1)
        /\ s.maxRecovery_ms # None /\ IsRank(cycles, s.maxRecovery_ms[1], k)
        /\ s.p95Recovery_ms # None
        /\ IsRank(cycles, s.p95Recovery_ms[1], Min((19 * k) \div 20, k - 1) + 1)
        /\ s.medianRecovery_ms # None /\ IsMedian(cycles, s.medianRecovery_ms[1])

\* C22 as stated: with k >= 1 completed durations, min, max, median and p95
\* are those of the completed durations and the mean is their sum divided
\* by k.
C22_Original ==
    (Summarized /\ CompletedAt(SummarizedCycles) # {}) =>
        /\ OrderStatistics(SummarizedCycles, Summary)
        /\ Summary.meanRecovery_ms # None
        /\ Summary.meanRecovery_ms[1].tenths * Cardinality(CompletedAt(SummarizedCycles))
              = 10 * SumAt(SummarizedCycles, CompletedAt(SummarizedCycles))

\* C22: with k >= 1 completed durations, min, max, median and p95 are those
\* of the completed durations and the mean is their sum divided by k,
\* rounded to the nearest tenth of a millisecond; incomplete cycles count
\* for nothing in them.
C22_Statistics ==
    (Summarized /\ CompletedAt(SummarizedCycles) # {}) =>
        LET k     == Cardinality(CompletedAt(SummarizedCycles))
            total == SumAt(SummarizedCycles, CompletedAt(SummarizedCycles))
            mean  == Summary.meanRecovery_ms[1].tenths
        IN  /\ OrderStatistics(SummarizedCycles, Summary)
            /\ Summary.meanRecovery_ms # None
            /\ 2 * (mean * k - 10 * total) <= k
            /\ 2 * (10 * total - mean * k) <= k

\* The durations 100, 200, 300, 400, 500, given out of order, have been
\* summarized: mean 300, median 300, min 100, max 500, p95 500.
C22_Witness ==
    /\ Summarized
    /\ SummarizedCycles[1] = CycleOf(Some(500))
    /\ Len(SummarizedCycles) = 5
    /\ Summary.meanRecovery_ms = Some(Decimal(3000))
    /\ Summary.medianRecovery_ms = Some(Decimal(3000))
    /\ Summary.minRecovery_ms = Some(100)
    /\ Summary.maxRecovery_ms = Some(500)
    /\ Summary.p95Recovery_ms = Some(500)

\* ------------------------------------------------ serialization claims

\* C23: what from_dict makes of to_dict(a), a returned by
\* compute_assignments, has the strategy, the mapping and the seed of a;
\* to_dict(a) has exactly the keys strategy, seed, assignments and metadata,
\* and its strategy is the tag of a's strategy.
C23_RoundTrip ==
    /\ serialized.data # None =>
          /\ DOMAIN serialized.data[1] = {"strategy", "seed", "assignments", "metadata"}
          /\ serialized.data[1].strategy \in PlacementStrategy
          /\ Member(serialized.data[1].strategy) = serialized.original[1].strategy
          /\ serialized.data[1].assignments = serialized.original[1].assignments
          /\ serialized.data[1].seed = serialized.original[1].seed
    /\ serialized.restored # None =>
          /\ serialized.restored[1].strategy = serialized.original[1].strategy
          /\ serialized.restored[1].assignments = serialized.original[1].assignments
          /\ serialized.restored[1].seed = serialized.original[1].seed

\* The result of a seeded random placement of two workloads has been
\* serialized and restored.
C23_Witness ==
    /\ serialized.restored # None
    /\ serialized.original[1].strategy = Member("random")
    /\ serialized.original[1].seed # None
    /\ Cardinality(DOMAIN serialized.original[1].assignments) = 2
    /\ serialized.restored[1].seed = serialized.original[1].seed

\* ------------------------------------------------ rollout claims

\* A status count that is absent is 0; the desired replica count is
\* spec.replicas, 1 when absent; a generation that is absent is 0.
CountOf(opt) == IF opt = None THEN 0 ELSE opt[1]

DesiredReplicas(dep) == IF dep.replicas = None THEN 1 ELSE dep.replicas[1]

\* The controller has observed the generation, and the updated, ready and
\* available replicas are each at least the desired replica count.
RolledOut(dep) ==
    /\ CountOf(dep.observed_generation) >= CountOf(dep.generation)
    /\ CountOf(dep.updated_replicas) >= DesiredReplicas(dep)
    /\ CountOf(dep.ready_replicas) >= DesiredReplicas(dep)
    /\ CountOf(dep.available_replicas) >= DesiredReplicas(dep)

\* C24: after a pass, a deployment that was pending is no longer pending
\* exactly when its read did not raise and showed it rolled out.
C24_ConvergedExactlyWhenRolledOut ==
    (polled # None /\ polled[1].still_pending # None) =>
        \A name \in polled[1].pending :
            (name \notin polled[1].still_pending[1])
                <=> (/\ ~polled[1].reads[name].raises
                     /\ RolledOut(polled[1].reads[name].dep))

\* A pass over two deployments: the read of one raised, the other was
\* rolled out; the first is still pending, the second is not.
C24_Witness ==
    /\ polled # None
    /\ polled[1].still_pending = Some({"db"})
    /\ polled[1].reads["db"].raises
    /\ RolledOut(polled[1].reads["web"].dep)

\* ------------------------------------------------ watcher claims, cycles

\* The types of the notifications logged, in order.
LoggedTypes(w) == [k \in DOMAIN w.events |-> w.events[k].type]

\* Two deletions and then an ADDED notification have been handled with no
\* stop() in between.
OverlappingDeletions(w) ==
    /\ ~w.stop_event
    /\ LoggedTypes(w) = <<"DELETED", "DELETED", "ADDED">>

\* C25: at most one cycle is open.  A thread that handles a DELETED
\* notification opens a cycle at `now` only if none is open; if one is open
\* its deletion time stays and no cycle is added.  So after two deletions
\* followed by one ready transition (no stop() in between) there is exactly
\* one cycle, its deletion time is the time of the first deletion, and no
\* cycle is open.
C25_OneOpenCycle ==
    [][/\ \A i \in DOMAIN workers :
            (HandleStep(i) /\ workers[i].event.type = "DELETED")
            => /\ watcher'.pending_deletion =
                     IF watcher.pending_deletion = None
                     THEN Some(workers[i].now)
                     ELSE watcher.pending_deletion
               /\ watcher'.cycles = watcher.cycles
       /\ OverlappingDeletions(watcher')
            => /\ Len(watcher'.cycles) = 1
               /\ watcher'.cycles[1].deletionTime = Some(watcher'.events[1].time)
               /\ watcher'.cycles[1].readyTime = Some(watcher'.events[3].time)
               /\ watcher'.pending_deletion = None]_vars

\* Pods deleted at 1.001 s and at 2 s, a replacement ready at 5.0004 s: one
\* cycle, from 1.001 s.
C25_Witness ==
    /\ OverlappingDeletions(watcher)
    /\ watcher.events[1].time < watcher.events[2].time
    /\ Len(watcher.cycles) = 1
    /\ watcher.cycles[1].deletionTime = Some(watcher.events[1].time)
    /\ watcher.cycles[1].totalRecovery_ms = Some(3999)

\* The last cycle of the list.
LastCycle(w) == w.cycles[Len(w.cycles)]

\* C26: a thread that handles an ADDED or MODIFIED notification closes the
\* open cycle exactly when the pod is ready in the notification, its last
\* recorded state (from the start() snapshot or from an earlier
\* notification; not ready when never seen) is not ready, and a cycle is
\* open.  The cycle added has the open cycle's deletion time, the pod's
\* PodScheduled transition time as scheduledTime and `now` as readyTime.
\* Otherwise the cycle list and the open cycle stay as they are.
C26_ClosesOnReadyTransition ==
    [][\A i \in DOMAIN workers :
          (HandleStep(i) /\ workers[i].event.type \in {"ADDED", "MODIFIED"})
          => IF /\ ReadyTransition(watcher, workers[i].event)
                /\ watcher.pending_deletion # None
             THEN /\ Len(watcher'.cycles) = Len(watcher.cycles) + 1
                  /\ SubSeq(watcher'.cycles, 1, Len(watcher.cycles)) = watcher.cycles
                  /\ LastCycle(watcher').deletionTime = watcher.pending_deletion
                  /\ LastCycle(watcher').scheduledTime =
                        _get_scheduled_time(workers[i].event.object)
                  /\ LastCycle(watcher').readyTime = Some(workers[i].now)
                  /\ watcher'.pending_deletion = None
             ELSE /\ watcher'.cycles = watcher.cycles
                  /\ watcher'.pending_deletion = watcher.pending_deletion]_vars

\* The snapshot of start() recorded p2 as ready; p1 was deleted and p2 then
\* reported ready again: the cycle is still open and no cycle was added.
C26_Witness ==
    /\ ~watcher.stop_event
    /\ Len(watcher.events) = 2
    /\ watcher.events[1].type = "DELETED"
    /\ watcher.events[2].type = "MODIFIED"
    /\ watcher.events[2].pod = "p2"
    /\ watcher.events[2].phase = "Running"
    /\ watcher.pod_ready["p2"]
    /\ watcher.pending_deletion = Some(watcher.events[1].time)
    /\ watcher.cycles = <<>>

\* ------------------------------------------------ watcher claims, lock

\* The state the lock is for.
GuardedState(w) == <<w.cycles, w.pending_deletion, w.events, w.pod_ready>>

\* A step taken with the lock held: a thread handles its notification,
\* stop() finalizes, or result() copies the lists.
LockedStep ==
    \/ \E i \in DOMAIN workers : HandleStep(i)
    \/ StopReturns
    \/ caller'.result # caller.result

\* C27: while a background thread is alive, the cycle list, the open-cycle
\* marker, the event log and the pod-readiness map are changed only by
\* steps that hold the lock.
C27_StateChangesUnderLock ==
    [][(GuardedState(watcher') # GuardedState(watcher) /\ AliveWorkers # {})
          => LockedStep]_vars

\* ------------------------------------------------ watcher claims, errors

\* Thread i ends in this step on an error of its stream or of its handling
\* of a notification (it has not read a notification with the stop flag set).
ErrorStep(i) ==
    /\ i \in DOMAIN workers
    /\ is_alive(workers[i])
    /\ ~is_alive(workers'[i])
    /\ workers'[i].cursor = workers[i].cursor

\* The thread ended while handling an ERROR notification.
HandlingFailed ==
    /\ Len(workers) = 1
    /\ ~is_alive(workers[1])
    /\ workers[1].event.type = "ERROR"

\* C28: an error in the stream or in the handling of a notification ends the
\* thread and nothing else: the step leaves the caller, the cycle list, the
\* open cycle, the event log and the readiness map as they are.  Every
\* result() returns the cycle list and the event log as recorded.  When
\* stop() returns with every thread ended, a cycle that was open has been
\* recorded as one incomplete cycle; and once stop() has returned after a
\* failed handling, no cycle is open.
C28_WorkerErrorsDiscarded ==
    [][/\ \A i \in DOMAIN workers :
            ErrorStep(i) => /\ caller' = caller
                            /\ GuardedState(watcher') = GuardedState(watcher)
       /\ (caller.pc = "idle" /\ caller'.pc = "idle" /\ caller'.result # caller.result)
            => /\ caller'.result # None
               /\ caller'.result[1].recoveryEvents = watcher.cycles
               /\ caller'.result[1].rawEvents = watcher.events
       /\ (StopReturns /\ AliveWorkers = {} /\ watcher.pending_deletion # None)
            => FinalizedAsIncomplete(watcher.pending_deletion[1])
       /\ (HandlingFailed' /\ caller'.stopped /\ caller'.pc = "idle")
            => watcher'.pending_deletion = None]_vars

\* A pod was deleted, then the handling of an ERROR notification failed;
\* stop() and result() have returned, and result() shows the deletion in
\* the event log and its cycle as an incomplete cycle.
C28_Witness ==
    /\ HandlingFailed
    /\ caller.stopped
    /\ caller.pc = "idle"
    /\ caller.result # None
    /\ Len(caller.result[1].rawEvents) = 1
    /\ caller.result[1].rawEvents[1].type = "DELETED"
    /\ caller.result[1].recoveryEvents =
          <<IncompleteCycle(caller.result[1].rawEvents[1].time)>>

\* ------------------------------------------------ mutator claims, restore

\* The cluster after a clear_placement() with no filter in which no call
\* fails, made on cluster c.
Cleared(c) == clear_placement(c, None, {}).cluster

\* The deployment has neither the placement selector key nor the managed
\* annotation in cluster c.
Untouched(c, d) ==
    /\ PLACEMENT_LABEL_KEY \notin DOMAIN c.node_selector[d]
    /\ ~Managed(c, d)

\* C29: an apply_assignment in which no patch failed, followed by a
\* clear_placement in which none fails, gives back the cluster: every
\* deployment of the assignment that had neither the placement key nor the
\* managed annotation before the apply has the selector and the annotations
\* it had before the apply, and no node carries the placement label.
C29_ApplyThenClearRestores ==
    [][(ApplyStep /\ mutator'.warnings = {}) =>
          /\ ~clear_placement(cluster', None, {}).raised
          /\ \A d \in (DOMAIN mutator'.assignment.assignments) \cap DeploymentNames :
                Untouched(cluster, d) =>
                    /\ Cleared(cluster').node_selector[d] = cluster.node_selector[d]
                    /\ Cleared(cluster').annotations[d] = cluster.annotations[d]
          /\ \A n \in ClusterNodes :
                PLACEMENT_LABEL_KEY \notin DOMAIN Cleared(cluster').labels[n]]_vars

\* An assignment was applied without a failure to a deployment that has a
\* selector key of the user's, and the placement was then cleared without a
\* failure: the deployment was cleared and has lost the managed annotation.
C29_Witness ==
    /\ mutator.op = "clear_placement"
    /\ mutator.outcome = "return"
    /\ mutator.dep_filter = None
    /\ "web" \in SetOf(mutator.cleared)
    /\ ~Managed(cluster, "web")
    /\ Get(cluster.node_selector["web"], "disktype") = Some("ssd")
    /\ \A n \in ClusterNodes : PLACEMENT_LABEL_KEY \notin DOMAIN cluster.labels[n]

\* ------------------------------------------------ watcher claims, log

\* The deletion times of the cycles recorded, in order, then that of the
\* open cycle if there is one.
Openings(w) ==
    [k \in DOMAIN w.cycles |-> w.cycles[k].deletionTime[1]]
        \o (IF w.pending_deletion = None THEN <<>> ELSE <<w.pending_deletion[1]>>)

\* How many DELETED notifications the log holds.
LoggedDeletions(w) ==
    Cardinality({k \in DOMAIN w.events : w.events[k].type = "DELETED"})

\* Every time of the list is the time of a DELETED notification of the
\* log, each of another one, in the order of the log.
RECURSIVE OpenedByDeletions(_, _)
OpenedByDeletions(times, events) ==
    IF times = <<>> THEN TRUE
    ELSE IF events = <<>> THEN FALSE
    ELSE IF Head(events).type = "DELETED" /\ Head(events).time = Head(times)
    THEN OpenedByDeletions(Tail(times), Tail(events))
    ELSE OpenedByDeletions(times, Tail(events))

\* C30: after every step, each cycle recorded and the open one have a
\* deletion time, that of a DELETED notification of the event log, each of
\* a different one; so there are at most as many of them as DELETED
\* notifications logged.  A thread that handles an ADDED or MODIFIED
\* notification while no cycle is open adds no cycle and opens none.
C30_CyclesOpenedByDeletions ==
    [][/\ \A k \in DOMAIN watcher'.cycles : watcher'.cycles[k].deletionTime # None
       /\ OpenedByDeletions(Openings(watcher'), watcher'.events)
       /\ Len(Openings(watcher')) <= LoggedDeletions(watcher')
       /\ \A i \in DOMAIN workers :
            (/\ HandleStep(i)
             /\ workers[i].event.type \in {"ADDED", "MODIFIED"}
             /\ watcher.pending_deletion = None)
            => /\ watcher'.cycles = watcher.cycles
               /\ watcher'.pending_deletion = None]_vars

\* A pod was deleted and stop() recorded the open cycle as incomplete
\* while the thread held the ADDED notification of the pod, ready; the
\* thread then handled it with no cycle open, and no cycle came of it.
C30_Witness ==
    /\ caller.stopped
    /\ caller.pc = "idle"
    /\ LoggedTypes(watcher) = <<"DELETED", "ADDED">>
    /\ watcher.events[2].pod = watcher.events[1].pod
    /\ watcher.events[2].phase = "Running"
    /\ watcher.pod_ready[watcher.events[2].pod]
    /\ watcher.cycles = <<IncompleteCycle(watcher.events[1].time)>>
    /\ watcher.pending_deletion = None

====
